---- MODULE Spec2Model ----
(***************************************************************************)
(* A model of supriya's non-realtime Session (src/supriya/nonrealtime/     *)
(* Session.py): the offset list and State mapping, the moment stack, the   *)
(* node-tree transition resolver, the id mapping and the compilation of    *)
(* the timeline into timestamped request bundles.                          *)
(*                                                                         *)
(* Offsets are integers; float("-inf") and float("inf") are the integers   *)
(* NegInf and Inf, below and above every finite offset of the model.       *)
(* Nodes are named by their index 1..MaxNodes in creation order; node i    *)
(* has session_id 1000 + (i - 1).  The root node is 0.                     *)
(***************************************************************************)
EXTENDS Integers, Sequences, FiniteSets, TLC

VARIABLES offsets, states, active_moments, nodes, ret,
          synth, events, log, buffers,
          buffer_events, options, buses, resolver

vars == <<offsets, states, active_moments, nodes, ret, synth, events, log, buffers,
          buffer_events, options, buses, resolver>>

\* the bus registry: options holds the hardware channel counts of the
\* session, buses the buses in the order they were registered
bus_vars == <<options, buses>>

\* the state of the automated Synth of tools/nonrealtimetools/Synth.py:
\* synth is its timespan, events its breakpoint lists by parameter name, log
\* the history of the parameter writes that returned normally
synth_vars == <<synth, events, log>>

(***************************************************************************)
(* Bounds of the model.                                                    *)
(***************************************************************************)
MaxOffset == 1
MaxDuration == 1
MaxNodes == 2
MaxDepth == 2
MaxMoves == 1
MaxCompiles == 2
MaxTimestep == 2
MaxWrites == 2
MaxBuffers == 1
MaxTreeNodes == 3
MaxDeletes == 1
MaxScenarioNodes == 4
MaxSessionBuffers == 2
MaxBufferEvents == 3
MaxHardwareChannels == 2
MaxBusAdds == 3
MaxBusCount == 2
MaxResolverNodes == 2
MaxSettingOffset == 1
MaxSettingNodes == 2
MaxSettingBuses == 3
MaxNodeWrites == 2
MaxBusWrites == 3
MaxSeeds == 2

Inf == MaxOffset + MaxDuration + 3
NegInf == 0 - Inf
\* "no object": Python's None where an offset or a State is expected
NoState == NegInf - 1
\* Python's None for the duration argument of a compile
NoDuration == NegInf - 2
\* stands for "no compile came before"
NoCompile == NegInf - 3

RootNode == 0

(***************************************************************************)
(* Sequence helpers.                                                       *)
(***************************************************************************)
SeqToSet(s) == {s[i] : i \in DOMAIN s}

\* list.index(x): the first 1-based position of x in s (0 when absent)
IndexOf(s, x) ==
    IF x \in SeqToSet(s)
    THEN CHOOSE i \in DOMAIN s : s[i] = x /\ \A j \in 1..(i - 1) : s[j] # x
    ELSE 0

\* list.insert(k, x) with k the 0-based Python index
InsertAt(s, k, x) ==
    IF k >= Len(s) THEN Append(s, x)
    ELSE SubSeq(s, 1, k) \o <<x>> \o SubSeq(s, k + 1, Len(s))

\* list.remove(x): drops the first occurrence
RemoveFirst(s, x) ==
    LET i == IndexOf(s, x)
    IN IF i = 0 THEN s ELSE SubSeq(s, 1, i - 1) \o SubSeq(s, i + 1, Len(s))

RECURSIVE SortSet(_)
\* sorted(set): ascending sequence of a finite set of integers
SortSet(S) ==
    IF S = {} THEN <<>>
    ELSE LET m == CHOOSE x \in S : \A y \in S : x <= y
         IN <<m>> \o SortSet(S \ {m})

\* bisect.bisect_left(a, x) on a sorted list: 0-based insertion index
bisect_left(a, x) == Cardinality({i \in DOMAIN a : a[i] < x})

\* bisect.bisect(a, x) (bisect_right) on a sorted list
bisect_right(a, x) == Cardinality({i \in DOMAIN a : a[i] <= x})

(***************************************************************************)
(* State: one snapshot per offset.  ntc is nodes_to_children, a function   *)
(* from the nodes of the tree to the sequence of their children; the       *)
(* empty function stands for None (a sparse State).  transitions is the    *)
(* ordered mapping source -> action, as a sequence of records in key       *)
(* order.                                                                  *)
(***************************************************************************)
NoTree == <<>>

NewState(offset) ==
    [offset |-> offset, ntc |-> NoTree, transitions |-> <<>>,
     start_nodes |-> {}, stop_nodes |-> {},
     start_buffers |-> {}, stop_buffers |-> {}]

\* State._clone: a State at new_offset with a copy of the tree only
Clone(state, new_offset) ==
    [NewState(new_offset) EXCEPT !.ntc = state.ntc]

HasNodeTree(state) == state.ntc # NoTree

(***************************************************************************)
(* Session._find_state_before / _find_state_at / _add_state_at.  A session *)
(* is passed around as a record [offsets, states]; the operators that      *)
(* mutate it return the new record.                                        *)
(***************************************************************************)
RECURSIVE ScanBack(_, _, _)
\* the while loop of _find_state_before: index is 0-based
ScanBack(offs, sts, index) ==
    IF index < 0 THEN NoState
    ELSE IF HasNodeTree(sts[offs[index + 1]]) THEN offs[index + 1]
    ELSE ScanBack(offs, sts, index - 1)

\* returns the offset of the State found, NoState for None
find_state_before(offs, sts, offset, with_node_tree) ==
    LET i0 == bisect_left(offs, offset)
        i1 == IF i0 = Len(offs) THEN i0 - 1 ELSE i0
        i2 == IF offset <= offs[i1 + 1] THEN i1 - 1 ELSE i1
    IN IF i2 < 0 THEN NoState
       ELSE IF with_node_tree THEN ScanBack(offs, sts, i2)
       ELSE offs[i2 + 1]

RECURSIVE ScanForward(_, _, _)
ScanForward(offs, sts, index) ==
    IF index >= Len(offs) THEN NoState
    ELSE IF HasNodeTree(sts[offs[index + 1]]) THEN offs[index + 1]
    ELSE ScanForward(offs, sts, index + 1)

find_state_after(offs, sts, offset, with_node_tree) ==
    LET index == bisect_right(offs, offset)
    IN IF with_node_tree THEN ScanForward(offs, sts, index)
       ELSE IF index < Len(offs) /\ offset < offs[index + 1]
            THEN offs[index + 1]
            ELSE NoState

\* _find_state_at(offset, clone_if_missing=True): the session afterwards
find_state_at(S, offset) ==
    IF offset \in DOMAIN S.states THEN S
    ELSE LET old == find_state_before(S.offsets, S.states, offset, TRUE)
         IN [offsets |-> InsertAt(S.offsets, IndexOf(S.offsets, old), offset),
             states |-> (offset :> Clone(S.states[old], offset)) @@ S.states]

\* fault variant of _add_state_at: the offset is spliced in before its
\* predecessor instead of after it
add_state_at_before(S, offset) ==
    LET old == find_state_before(S.offsets, S.states, offset, FALSE)
    IN [offsets |-> InsertAt(S.offsets, IndexOf(S.offsets, old) - 1, offset),
        states |-> (offset :> Clone(S.states[old], offset)) @@ S.states]

\* _add_state_at(offset): the session afterwards
add_state_at(S, offset) ==
    LET old == find_state_before(S.offsets, S.states, offset, FALSE)
    IN [offsets |-> InsertAt(S.offsets, IndexOf(S.offsets, old), offset),
        states |-> (offset :> Clone(S.states[old], offset)) @@ S.states]

\* fault variant of Session.at: a State is added whether or not the offset
\* has one
at_state_always_add(S, offset) == add_state_at(S, offset)

\* the state-creating part of Session.at, for an offset that passed the
\* assertion 0 <= offset
at_state(S, offset) ==
    IF offset \in DOMAIN S.states THEN S ELSE add_state_at(S, offset)

(***************************************************************************)
(* Node trees.  The add actions are supriya's AddAction names.             *)
(***************************************************************************)
AddActions == {"ADD_TO_HEAD", "ADD_TO_TAIL", "ADD_BEFORE", "ADD_AFTER"}

NoNode == 0 - 1

\* nodes_to_parents, derived from nodes_to_children
Parent(ntc, n) ==
    IF \E p \in DOMAIN ntc : n \in SeqToSet(ntc[p])
    THEN CHOOSE p \in DOMAIN ntc : n \in SeqToSet(ntc[p])
    ELSE NoNode

RECURSIVE Subtree(_, _)
\* n and all its descendants in ntc
Subtree(ntc, n) ==
    IF n \notin DOMAIN ntc THEN {n}
    ELSE {n} \cup UNION {Subtree(ntc, ntc[n][i]) : i \in DOMAIN ntc[n]}

\* the free_node of a transition: drops n with its descendants
FreeNode(ntc, n) ==
    IF n \notin DOMAIN ntc THEN ntc
    ELSE LET gone == Subtree(ntc, n)
             p == Parent(ntc, n)
         IN [x \in DOMAIN ntc \ gone |->
                IF x = p THEN RemoveFirst(ntc[x], n) ELSE ntc[x]]

\* one recorded transition applied to a tree: source is detached from its
\* old parent (if any) and inserted relative to target
ApplyTransform(ntc, tr) ==
    LET old == Parent(ntc, tr.source)
        detached == IF old = NoNode THEN ntc
                    ELSE [ntc EXCEPT ![old] = RemoveFirst(ntc[old], tr.source)]
        new_parent == IF tr.action \in {"ADD_BEFORE", "ADD_AFTER"}
                      THEN Parent(detached, tr.target)
                      ELSE tr.target
    IN IF \/ new_parent \notin DOMAIN detached
          \/ tr.target \in Subtree(ntc, tr.source)
       THEN ntc  \* malformed: no such session is explored (WellFormed)
       ELSE LET children == detached[new_parent]
                k == CASE tr.action = "ADD_TO_HEAD" -> 0
                       [] tr.action = "ADD_TO_TAIL" -> Len(children)
                       [] tr.action = "ADD_BEFORE" -> IndexOf(children, tr.target) - 1
                       [] tr.action = "ADD_AFTER" -> IndexOf(children, tr.target)
                own == IF tr.source \in DOMAIN detached
                       THEN detached[tr.source] ELSE <<>>
            IN (new_parent :> InsertAt(children, k, tr.source))
               @@ (tr.source :> own) @@ detached

RECURSIVE ReplayTransitions(_, _)
ReplayTransitions(transitions, ntc) ==
    IF transitions = <<>> THEN ntc
    ELSE ReplayTransitions(Tail(transitions), ApplyTransform(ntc, Head(transitions)))

RECURSIVE FreeNodes(_, _)
FreeNodes(ntc, ns) ==
    IF ns = <<>> THEN ntc
    ELSE FreeNodes(FreeNode(ntc, Head(ns)), Tail(ns))

\* State._apply_transitions(transitions, nodes_to_children,
\* nodes_to_parents, stop_nodes): replay in recording order, then free the
\* nodes stopping here
StateApplyTransitions(transitions, ntc, stop_nodes) ==
    FreeNodes(ReplayTransitions(transitions, ntc), SortSet(stop_nodes))

(***************************************************************************)
(* Session._apply_transitions(offsets): the work-queue resolver.  The      *)
(* PriorityQueue pops the smallest offset first and equal offsets popped   *)
(* in a row are skipped, so the queue is a set here.                       *)
(***************************************************************************)
MinOf(S) == CHOOSE x \in S : \A y \in S : x <= y

\* the transitions ordered by the identity of their source node
ByIdentity(transitions) ==
    [k \in DOMAIN transitions |->
        CHOOSE tr \in SeqToSet(transitions) :
            Cardinality({x \in SeqToSet(transitions) : x.source < tr.source}) = k - 1]

\* the loop body replaying the transitions in the order of node identity
ResolveStep_by_identity(S, offset) ==
    LET state == S.states[offset]
        previous == find_state_before(S.offsets, S.states, offset, TRUE)
        result == StateApplyTransitions(
                      ByIdentity(state.transitions), S.states[previous].ntc,
                      state.stop_nodes)
        changed == result # state.ntc
    IN [session |-> IF changed
                    THEN [S EXCEPT !.states[offset].ntc = result]
                    ELSE S,
        next |-> IF changed
                 THEN find_state_after(S.offsets, S.states, offset, TRUE)
                 ELSE NoState]

\* fault variant of the loop body: the nodes stopping at the offset are
\* not handed to State._apply_transitions
ResolveStep_without_stop_nodes(S, offset) ==
    LET state == S.states[offset]
        previous == find_state_before(S.offsets, S.states, offset, TRUE)
        result == StateApplyTransitions(
                      state.transitions, S.states[previous].ntc, {})
        changed == result # state.ntc
    IN [session |-> IF changed
                    THEN [S EXCEPT !.states[offset].ntc = result]
                    ELSE S,
        next |-> IF changed
                 THEN find_state_after(S.offsets, S.states, offset, TRUE)
                 ELSE NoState]

\* one pass of the while loop body for the popped offset: the new session
\* and the offset to enqueue (NoState for none)
ResolveStep(S, offset) ==
    LET state == S.states[offset]
        previous == find_state_before(S.offsets, S.states, offset, TRUE)
        result == StateApplyTransitions(
                      state.transitions, S.states[previous].ntc, state.stop_nodes)
        changed == result # state.ntc
    IN [session |-> IF changed
                    THEN [S EXCEPT !.states[offset].ntc = result]
                    ELSE S,
        next |-> IF changed
                 THEN find_state_after(S.offsets, S.states, offset, TRUE)
                 ELSE NoState]

RECURSIVE apply_transitions(_, _)
apply_transitions(S, queue) ==
    IF queue = {} THEN S
    ELSE LET offset == MinOf(queue)
             rest == queue \ {offset}
         IN IF offset \notin DOMAIN S.states
            THEN apply_transitions(S, rest)
            ELSE LET step == ResolveStep(S, offset)
                 IN apply_transitions(
                        step.session,
                        rest \cup (IF step.next = NoState THEN {} ELSE {step.next}))

(***************************************************************************)
(* Nodes.  kind is "group" or "synth"; synthdef is 0 for a group.  A       *)
(* synthdef is named by its rank in anonymous-name order; SynthDefs with   *)
(* a "gate" parameter are those in GatedSynthDefs.                         *)
(***************************************************************************)
SynthDefs == {1, 2}
GatedSynthDefs == {1}

NodeIdBase == 1000

\* Session._get_next_session_id("node") for the i-th node created
SessionId(n) == IF n = RootNode THEN 0 ELSE NodeIdBase + (n - 1)

\* Node._valid_add_actions of the target's class
ValidAddActions(ns, target) ==
    IF target = RootNode THEN {"ADD_TO_HEAD", "ADD_TO_TAIL"}
    ELSE IF ns[target].kind = "group" THEN AddActions
    ELSE {"ADD_BEFORE", "ADD_AFTER"}

\* state.transitions[node] = action on the ordered mapping: a key already
\* present keeps its position
SetTransition(transitions, tr) ==
    IF \E i \in DOMAIN transitions : transitions[i].source = tr.source
    THEN [i \in DOMAIN transitions |->
            IF transitions[i].source = tr.source THEN tr ELSE transitions[i]]
    ELSE Append(transitions, tr)

RECURSIVE ReplayClean(_, _, _)
\* every transition of the list finds its target in the tree it is applied
\* to, adds a node that is not there yet or moves one that is, and does not
\* put a node under itself
ReplayClean(transitions, ntc, start_nodes) ==
    IF transitions = <<>> THEN TRUE
    ELSE LET tr == Head(transitions)
         IN /\ tr.target \in DOMAIN ntc
            /\ tr.source # tr.target
            /\ (tr.source \in start_nodes) = (tr.source \notin DOMAIN ntc)
            /\ tr.target \notin Subtree(ntc, tr.source)
            /\ tr.action \in {"ADD_BEFORE", "ADD_AFTER"} => tr.target # RootNode
            /\ ReplayClean(Tail(transitions), ApplyTransform(ntc, tr), start_nodes)

\* the session holds no transition that refers to a node absent from the
\* tree it is replayed against
WellFormed(S) ==
    \A i \in 2..Len(S.offsets) :
        LET state == S.states[S.offsets[i]]
            previous == find_state_before(S.offsets, S.states, S.offsets[i], TRUE)
        IN ReplayClean(state.transitions, S.states[previous].ntc, state.start_nodes)

\* Node.add_group / Node.add_synth called on target inside a moment: the
\* session afterwards.  n is the new node, starting at the active moment's
\* offset and stopping at stop.
add_node(S, n, start, stop, target, action) ==
    LET S1 == [S EXCEPT !.states[start].start_nodes = @ \cup {n}]
        S2 == at_state(S1, stop)
        S3 == [S2 EXCEPT !.states[stop].stop_nodes = @ \cup {n}]
        S4 == [S3 EXCEPT !.states[start].transitions =
                  SetTransition(@, [source |-> n, target |-> target, action |-> action])]
    IN apply_transitions(S4, {start, stop})

\* Node.move_node(node, add_action) called on target inside the moment at
\* offset
move_node(S, ns, offset, target, node, action) ==
    LET S1 == [S EXCEPT !.states[offset].transitions =
                  SetTransition(@, [source |-> node, target |-> target, action |-> action])]
    IN apply_transitions(S1, {offset, ns[node].stop})

(***************************************************************************)
(* Node.delete and the rebuilding of transitions from resolved trees.      *)
(***************************************************************************)
\* the tree with n taken out and its children put in its place among the
\* children of its parent
SpliceOut(ntc, n) ==
    IF n \notin DOMAIN ntc THEN ntc
    ELSE LET p == Parent(ntc, n)
             i == IndexOf(ntc[p], n)
         IN [x \in DOMAIN ntc \ {n} |->
                IF x = p
                THEN SubSeq(ntc[p], 1, i - 1) \o ntc[n]
                         \o SubSeq(ntc[p], i + 1, Len(ntc[p]))
                ELSE ntc[x]]

RECURSIVE RebuildChildren(_, _, _, _, _)
\* the transitions that bring the children of parent, from the i-th on, to
\* the places they have in the tree wanted: a child is put before the node
\* that holds its place, after its left sibling when the place is past the
\* end, or at the head of an empty parent
RebuildChildren(working, wanted, parent, i, transitions) ==
    IF i > Len(wanted[parent])
    THEN [working |-> working, transitions |-> transitions]
    ELSE LET child == wanted[parent][i]
             present == IF parent \in DOMAIN working THEN working[parent] ELSE <<>>
             tr == IF i <= Len(present)
                   THEN [source |-> child, target |-> present[i], action |-> "ADD_BEFORE"]
                   ELSE IF i > 1
                   THEN [source |-> child, target |-> wanted[parent][i - 1],
                         action |-> "ADD_AFTER"]
                   ELSE [source |-> child, target |-> parent, action |-> "ADD_TO_HEAD"]
         IN IF i <= Len(present) /\ present[i] = child
            THEN RebuildChildren(working, wanted, parent, i + 1, transitions)
            ELSE RebuildChildren(ApplyTransform(working, tr), wanted, parent, i + 1,
                                 Append(transitions, tr))

RECURSIVE RebuildFrom(_, _, _, _)
\* the parents of the tree wanted are visited from the root down, a node
\* before its children and its subtree before its right siblings
RebuildFrom(working, wanted, queue, transitions) ==
    IF queue = <<>> THEN transitions
    ELSE LET parent == Head(queue)
             done == RebuildChildren(working, wanted, parent, 1, transitions)
         IN RebuildFrom(done.working, wanted, wanted[parent] \o Tail(queue),
                        done.transitions)

\* State._rebuild_transitions(state_one, state_two): the transitions that
\* turn the tree of state_one, less the nodes stopping at state_two, into
\* the tree of state_two
state_rebuild_transitions(ntc_one, ntc_two, stop_nodes) ==
    RebuildFrom(FreeNodes(ntc_one, SortSet(stop_nodes)), ntc_two, <<RootNode>>, <<>>)

\* the transitions recorded before the deletion are kept
rebuild_transitions_kept(S) == S

\* fault variant of rebuild_transitions: the two States of a pair change
\* places in the call of State._rebuild_transitions
rebuild_transitions_swapped(S) ==
    [S EXCEPT !.states =
        [o \in DOMAIN S.states |->
            LET previous == find_state_before(S.offsets, S.states, o, TRUE)
            IN IF previous = NoState \/ ~HasNodeTree(S.states[o])
               THEN S.states[o]
               ELSE [S.states[o] EXCEPT !.transitions =
                        state_rebuild_transitions(S.states[o].ntc,
                                                  S.states[previous].ntc,
                                                  S.states[o].stop_nodes)]]]

\* Session.rebuild_transitions: every State with a tree gets the
\* transitions rebuilt from the tree of the one before it
rebuild_transitions(S) ==
    [S EXCEPT !.states =
        [o \in DOMAIN S.states |->
            LET previous == find_state_before(S.offsets, S.states, o, TRUE)
            IN IF previous = NoState \/ ~HasNodeTree(S.states[o])
               THEN S.states[o]
               ELSE [S.states[o] EXCEPT !.transitions =
                        state_rebuild_transitions(S.states[previous].ntc,
                                                  S.states[o].ntc,
                                                  S.states[o].stop_nodes)]]]

\* Node.delete: the node leaves the start and stop sets and every tree that
\* holds it, its children taking its place, and the transitions are rebuilt
delete_node(S, ns, n) ==
    LET spliced == [o \in DOMAIN S.states |->
                       [S.states[o] EXCEPT
                           !.start_nodes = @ \ {n},
                           !.stop_nodes = @ \ {n},
                           !.ntc = SpliceOut(@, n)]]
    IN rebuild_transitions([S EXCEPT !.states = spliced])

(***************************************************************************)
(* Requests.  cat is the category of section 4.4 the request is emitted    *)
(* in; ids are wire-level integers taken from the id mapping.              *)
(***************************************************************************)
CatSynthDef == 1
CatBufferAllocate == 2
CatBufferPostAlloc == 3
CatNodeAction == 4
CatBusSet == 5
CatNodeSet == 6
CatNodeFree == 7
CatBufferPreFree == 8
CatBufferFree == 9
CatSentinel == 10

Request(cat, type, id, target, action, ids) ==
    [cat |-> cat, type |-> type, id |-> id, target |-> target,
     action |-> action, ids |-> ids, synthdef |-> 0]

\* id is the rank of the definition's anonymous name
SynthDefReceiveRequest(synthdef) ==
    [Request(CatSynthDef, "d_recv", synthdef, NoNode, "", <<>>)
        EXCEPT !.synthdef = synthdef]

\* the new node is always put under the root
NodeNewRequest_under_root(ns, source, tr, id_mapping) ==
    [Request(CatNodeAction,
             IF ns[source].kind = "group" THEN "g_new" ELSE "s_new",
             id_mapping[source], id_mapping[RootNode], tr.action, <<>>)
        EXCEPT !.synthdef = ns[source].synthdef]

\* Group._to_request / Synth._to_request: /g_new or /s_new
NodeNewRequest(ns, source, tr, id_mapping) ==
    [Request(CatNodeAction,
             IF ns[source].kind = "group" THEN "g_new" ELSE "s_new",
             id_mapping[source], id_mapping[tr.target], tr.action, <<>>)
        EXCEPT !.synthdef = ns[source].synthdef]

\* the request of a recorded move: /g_head, /g_tail, /n_before, /n_after
NodeMoveRequest(tr, id_mapping) ==
    Request(CatNodeAction,
            CASE tr.action = "ADD_TO_HEAD" -> "g_head"
              [] tr.action = "ADD_TO_TAIL" -> "g_tail"
              [] tr.action = "ADD_BEFORE" -> "n_before"
              [] tr.action = "ADD_AFTER" -> "n_after",
            id_mapping[tr.source], id_mapping[tr.target], tr.action, <<>>)

NodeFreeRequest(node_ids) ==
    Request(CatNodeFree, "n_free", NoNode, NoNode, "", node_ids)

\* NodeSetRequest(node_id=node_id, gate=0)
GateOffRequest(node_id) ==
    Request(CatNodeFree, "n_set_gate_0", node_id, NoNode, "", <<>>)

NothingRequest == Request(CatSentinel, "nothing", NoNode, NoNode, "", <<>>)

(***************************************************************************)
(* The id mapping.                                                         *)
(***************************************************************************)
\* fault variant of the id mapping: a node keeps the id the allocator hands
\* out when it is visited (by offset, then by session_id)
build_id_mapping_for_nodes_allocated(S) ==
    LET started == UNION {S.states[S.offsets[i]].start_nodes : i \in 2..Len(S.offsets)}
        at(n) == CHOOSE i \in 2..Len(S.offsets) : n \in S.states[S.offsets[i]].start_nodes
        visited_before(m, n) == at(m) < at(n) \/ (at(m) = at(n) /\ m < n)
    IN [n \in {RootNode} \cup started |->
           IF n = RootNode THEN 0
           ELSE NodeIdBase + Cardinality({m \in started : visited_before(m, n)})]

\* every node of a start set of offsets[1:] maps to its session_id
build_id_mapping_for_nodes(S) ==
    LET started == UNION {S.states[S.offsets[i]].start_nodes : i \in 2..Len(S.offsets)}
    IN [n \in {RootNode} \cup started |-> SessionId(n)]

build_id_mapping(S) == build_id_mapping_for_nodes(S)

(***************************************************************************)
(* Session.duration (padding is None).                                     *)
(***************************************************************************)
session_duration(offs) ==
    LET finite == {i \in DOMAIN offs : offs[i] < Inf}
        last == IF finite = {} THEN offs[1]
                ELSE offs[CHOOSE i \in finite : \A j \in finite : j <= i]
    IN IF last < 0 THEN 0 ELSE last

(***************************************************************************)
(* The request compiler for one offset.                                    *)
(***************************************************************************)
\* State.overlap_nodes: the nodes whose interval spans the offset
overlap_nodes(ns, offset) ==
    {n \in DOMAIN ns :
        ~ns[n].deleted /\ ns[n].start < offset /\ offset < ns[n].stop}

\* _collect_durated_objects, after its _find_state_at(offset, True)
collect_durated_objects(S, ns, offset, is_last_offset) ==
    LET state == S.states[offset]
    IN [start_nodes |-> state.start_nodes,
        stop_nodes |-> state.stop_nodes \cup
            (IF is_last_offset THEN overlap_nodes(ns, offset) ELSE {})]

\* the SynthDefs first used by a synth starting here
new_synthdefs(ns, start_nodes, visited_synthdefs) ==
    {ns[n].synthdef : n \in {m \in start_nodes : ns[m].kind = "synth"}}
        \ visited_synthdefs

\* fault variant of _collect_synthdef_requests: the definitions already
\* received are not skipped
collect_synthdef_requests_unvisited(ns, start_nodes, visited_synthdefs) ==
    LET synthdefs == SortSet(new_synthdefs(ns, start_nodes, {}))
    IN [i \in DOMAIN synthdefs |-> SynthDefReceiveRequest(synthdefs[i])]

collect_synthdef_requests(ns, start_nodes, visited_synthdefs) ==
    LET synthdefs == SortSet(new_synthdefs(ns, start_nodes, visited_synthdefs))
    IN [i \in DOMAIN synthdefs |-> SynthDefReceiveRequest(synthdefs[i])]

\* fault variant of _collect_node_action_requests: the transitions are
\* visited in ascending order of the id of their source
collect_node_action_requests_by_id(ns, id_mapping, node_actions, start_nodes) ==
    LET ids == SortSet({id_mapping[node_actions[i].source] : i \in DOMAIN node_actions})
        at(i) == node_actions[CHOOSE j \in DOMAIN node_actions :
                                  id_mapping[node_actions[j].source] = ids[i]]
    IN [i \in DOMAIN ids |->
           IF at(i).source \in start_nodes
           THEN NodeNewRequest(ns, at(i).source, at(i), id_mapping)
           ELSE NodeMoveRequest(at(i), id_mapping)]

collect_node_action_requests(ns, id_mapping, node_actions, start_nodes) ==
    [i \in DOMAIN node_actions |->
        IF node_actions[i].source \in start_nodes
        THEN NodeNewRequest(ns, node_actions[i].source, node_actions[i], id_mapping)
        ELSE NodeMoveRequest(node_actions[i], id_mapping)]

HasGate(ns, n) == ns[n].kind = "synth" /\ ns[n].synthdef \in GatedSynthDefs

\* fault variant of _collect_node_free_requests: one node-free request per
\* id instead of one for the whole list
collect_node_free_requests_unbatched(ns, id_mapping, stop_nodes) ==
    LET gate_ids == SortSet({id_mapping[n] : n \in {m \in stop_nodes : HasGate(ns, m)}})
        free_ids == SortSet({id_mapping[n] : n \in
                        {m \in stop_nodes : ~HasGate(ns, m) /\ ns[m].stop # ns[m].start}})
    IN [i \in DOMAIN free_ids |-> NodeFreeRequest(<<free_ids[i]>>)]
       \o [i \in DOMAIN gate_ids |-> GateOffRequest(gate_ids[i])]

collect_node_free_requests(ns, id_mapping, stop_nodes) ==
    LET gate_ids == SortSet({id_mapping[n] : n \in {m \in stop_nodes : HasGate(ns, m)}})
        free_ids == SortSet({id_mapping[n] : n \in
                        {m \in stop_nodes : ~HasGate(ns, m) /\ ns[m].stop # ns[m].start}})
    IN (IF free_ids # <<>> THEN <<NodeFreeRequest(free_ids)>> ELSE <<>>)
       \o [i \in DOMAIN gate_ids |-> GateOffRequest(gate_ids[i])]

\* fault variant of _collect_requests_at_offset: the node frees are
\* concatenated ahead of the node actions
collect_requests_at_offset_frees_first(S, ns, id_mapping, is_last_offset, offset, visited_synthdefs) ==
    LET durated == collect_durated_objects(S, ns, offset, is_last_offset)
        node_actions == S.states[offset].transitions
    IN collect_synthdef_requests(ns, durated.start_nodes, visited_synthdefs)
       \o collect_node_free_requests(ns, id_mapping, durated.stop_nodes)
       \o collect_node_action_requests(ns, id_mapping, node_actions, durated.start_nodes)

\* _collect_requests_at_offset, on the session that already holds a State
\* at offset; the categories without objects in this model are empty
collect_requests_at_offset(S, ns, id_mapping, is_last_offset, offset, visited_synthdefs) ==
    LET durated == collect_durated_objects(S, ns, offset, is_last_offset)
        node_actions == S.states[offset].transitions
    IN collect_synthdef_requests(ns, durated.start_nodes, visited_synthdefs)
       \o collect_node_action_requests(ns, id_mapping, node_actions, durated.start_nodes)
       \o collect_node_free_requests(ns, id_mapping, durated.stop_nodes)

(***************************************************************************)
(* Session._to_non_xrefd_request_bundles(duration).                        *)
(***************************************************************************)
RECURSIVE compile_loop_no_break(_, _, _, _, _, _, _, _)
\* fault variant of the for loop: the break after the last offset is
\* missing, so is_last_offset stays set for the offsets that follow
compile_loop_no_break(S, ns, render_offsets, k, duration, id_mapping, visited_synthdefs, request_bundles) ==
    IF k > Len(render_offsets)
    THEN [session |-> S, bundles |-> request_bundles]
    ELSE LET offset == render_offsets[k]
             is_last_offset == duration <= offset
             S1 == find_state_at(S, offset)
             collected == collect_requests_at_offset(
                              S1, ns, id_mapping, is_last_offset, offset,
                              visited_synthdefs)
             requests == IF is_last_offset
                         THEN Append(collected, NothingRequest)
                         ELSE collected
             bundles == IF requests # <<>>
                        THEN Append(request_bundles,
                                    [timestamp |-> offset, contents |-> requests])
                        ELSE request_bundles
             visited == visited_synthdefs \cup
                            new_synthdefs(ns, S1.states[offset].start_nodes,
                                          visited_synthdefs)
         IN compile_loop_no_break(S1, ns, render_offsets, k + 1, duration,
                                  id_mapping, visited, bundles)

RECURSIVE compile_loop(_, _, _, _, _, _, _, _)
\* the for loop over the render offsets, from the k-th on; returns the
\* session as the loop leaves it and the bundles
compile_loop(S, ns, render_offsets, k, duration, id_mapping, visited_synthdefs, request_bundles) ==
    IF k > Len(render_offsets)
    THEN [session |-> S, bundles |-> request_bundles]
    ELSE LET offset == render_offsets[k]
             is_last_offset == offset = duration
             S1 == find_state_at(S, offset)
             collected == collect_requests_at_offset(
                              S1, ns, id_mapping, is_last_offset, offset,
                              visited_synthdefs)
             requests == IF is_last_offset
                         THEN Append(collected, NothingRequest)
                         ELSE collected
             bundles == IF requests # <<>>
                        THEN Append(request_bundles,
                                    [timestamp |-> offset, contents |-> requests])
                        ELSE request_bundles
             visited == visited_synthdefs \cup
                            new_synthdefs(ns, S1.states[offset].start_nodes,
                                          visited_synthdefs)
         IN IF is_last_offset
            THEN [session |-> S1, bundles |-> bundles]
            ELSE compile_loop(S1, ns, render_offsets, k + 1, duration,
                              id_mapping, visited, bundles)

\* duration or self.duration: None and 0 are both false in Python
effective_duration(S, duration) ==
    IF duration = NoDuration \/ duration = 0
    THEN session_duration(S.offsets) ELSE duration

\* fault variant of the offsets of a render: a duration that is added is
\* left at the end of the list, the sort is missing
render_offsets_unsorted(S, duration) ==
    LET tail == SubSeq(S.offsets, 2, Len(S.offsets))
    IN IF duration \in SeqToSet(tail) THEN tail ELSE Append(tail, duration)

\* fault variant of the offsets of a render: the duration is not added
render_offsets_without_duration(S, duration) ==
    SubSeq(S.offsets, 2, Len(S.offsets))

\* offsets = self.offsets[1:], with the duration added and sorted in
render_offsets(S, duration) ==
    LET tail == SubSeq(S.offsets, 2, Len(S.offsets))
    IN IF duration \in SeqToSet(tail) THEN tail
       ELSE SortSet(SeqToSet(tail) \cup {duration})

\* the assertion at the top of _to_non_xrefd_request_bundles
duration_assertion_holds(S, duration) ==
    session_duration(S.offsets) = Inf =>
        (duration # NoDuration /\ 0 < duration /\ duration < Inf)

\* fault variant of the id mapping: node ids are handed out by the
\* allocator in the order in which the render releases the nodes (at their
\* stop offset, or at the duration for those it cuts short)
build_id_mapping_by_release(S, ns, duration) ==
    LET base == build_id_mapping_for_nodes(S)
        started == DOMAIN base \ {RootNode}
        release(n) == IF ns[n].stop < duration THEN ns[n].stop ELSE duration
        key(n) == release(n) * (MaxNodes + 1) + n
    IN [n \in DOMAIN base |->
           IF n = RootNode THEN 0
           ELSE NodeIdBase + Cardinality({m \in started : key(m) < key(n)})]

\* fault variant of _to_non_xrefd_request_bundles: the id mapping is built
\* for the render duration
to_non_xrefd_request_bundles_release_ids(S, ns, duration) ==
    LET d == effective_duration(S, duration)
        id_mapping == build_id_mapping_by_release(S, ns, d)
        result == compile_loop(S, ns, render_offsets(S, d), 1, d,
                               id_mapping, {}, <<>>)
    IN [ok |-> TRUE, session |-> result.session,
        bundles |-> result.bundles, idmap |-> id_mapping,
        duration |-> d]

to_non_xrefd_request_bundles(S, ns, duration) ==
    LET id_mapping == build_id_mapping(S)
    IN IF ~duration_assertion_holds(S, duration)
       THEN [ok |-> FALSE, session |-> S, bundles |-> <<>>, idmap |-> id_mapping,
             duration |-> NoDuration]
       ELSE LET d == effective_duration(S, duration)
                result == compile_loop(S, ns, render_offsets(S, d), 1, d,
                                       id_mapping, {}, <<>>)
            IN [ok |-> TRUE, session |-> result.session,
                bundles |-> result.bundles, idmap |-> id_mapping,
                duration |-> d]

(***************************************************************************)
(* Buffers in the request compiler.  Buffers are named by their index in   *)
(* creation order; buffer b has session_id b - 1.  An event is a record    *)
(* [buffer, offset, type, channel_indices, leave_open]: type is the key    *)
(* of Buffer._events it was recorded under ("read", "write" or "zero").    *)
(***************************************************************************)
BufferId(b) == b - 1

\* State.overlap_buffers
overlap_buffers(bufs, offset) ==
    {b \in DOMAIN bufs : bufs[b].start < offset /\ offset < bufs[b].stop}

BufferRequest(cat, type, buffer_id, leave_open) ==
    [leave_open |-> leave_open] @@ Request(cat, type, buffer_id, NoNode, "", <<>>)

BufferCloseRequest(cat, buffer_id) == BufferRequest(cat, "b_close", buffer_id, FALSE)

\* the request _collect_buffer_settings builds for an event
BufferEventRequest(cat, event) ==
    BufferRequest(cat,
                  CASE event.type = "read" /\ event.channel_indices -> "b_readChannel"
                    [] event.type = "read" /\ ~event.channel_indices -> "b_read"
                    [] event.type = "write" -> "b_write"
                    [] event.type = "zero" -> "b_zero",
                  BufferId(event.buffer), event.leave_open)

\* _ordered_buffer_post_alloc_request_types and
\* _ordered_buffer_pre_free_request_types, as the keys that occur here
PostAllocRequestTypes == <<"read", "zero">>
PreFreeRequestTypes == <<"write">>

RECURSIVE ByBuffer(_, _, _)
\* the events of the buffers b..n, buffer by buffer
ByBuffer(evs, b, n) ==
    IF b > n THEN <<>>
    ELSE SelectSeq(evs, LAMBDA e : e.buffer = b) \o ByBuffer(evs, b + 1, n)

\* buffer_settings[offset][request_type]: the buffers in id order, the
\* events of one buffer in the order they were recorded
buffer_settings(bufs, evs, offset, request_type) ==
    ByBuffer(SelectSeq(evs, LAMBDA e : e.offset = offset /\ e.type = request_type),
             1, Len(bufs))

RECURSIVE buffer_settings_of_types(_, _, _, _)
buffer_settings_of_types(bufs, evs, offset, request_types) ==
    IF request_types = <<>> THEN <<>>
    ELSE buffer_settings(bufs, evs, offset, Head(request_types))
         \o buffer_settings_of_types(bufs, evs, offset, Tail(request_types))

\* what a collector hands on: the requests so far, buffer_open_states, and
\* whether a lookup in buffer_open_states raised KeyError
Collected(requests, open_states, raised) ==
    [requests |-> requests, open_states |-> open_states, raised |-> raised]

\* the only element of a set of one element
Only(S) == CHOOSE x \in S : TRUE

\* the body of the loop of _collect_buffer_allocate_requests
collect_buffer_allocate_request(got, cat, buffer) ==
    Collected(Append(got.requests, BufferRequest(cat, "b_alloc", BufferId(buffer), FALSE)),
              (BufferId(buffer) :> FALSE) @@ got.open_states, FALSE)

\* fault variant of the loop body: every read or write is preceded by a
\* close
collect_buffer_nonlifecycle_request_always_close(got, cat, event) ==
    LET id == BufferId(event.buffer)
        request == BufferEventRequest(cat, event)
    IN IF event.type \in {"read", "write"}
       THEN IF id \notin DOMAIN got.open_states
            THEN Collected(got.requests, got.open_states, TRUE)
            ELSE Collected(got.requests \o <<BufferCloseRequest(cat, id)>> \o <<request>>,
                           [got.open_states EXCEPT ![id] = event.leave_open], FALSE)
       ELSE Collected(Append(got.requests, request), got.open_states, FALSE)

\* the body of the inner loop of _collect_buffer_nonlifecycle_requests: a
\* read or write closes an open buffer first and leaves it as its
\* leave_open says
collect_buffer_nonlifecycle_request(got, cat, event) ==
    LET id == BufferId(event.buffer)
        request == BufferEventRequest(cat, event)
    IN IF event.type \in {"read", "write"}
       THEN IF id \notin DOMAIN got.open_states
            THEN Collected(got.requests, got.open_states, TRUE)
            ELSE Collected(got.requests
                               \o (IF got.open_states[id]
                                   THEN <<BufferCloseRequest(cat, id)>>
                                   ELSE <<>>)
                               \o <<request>>,
                           [got.open_states EXCEPT ![id] = event.leave_open], FALSE)
       ELSE Collected(Append(got.requests, request), got.open_states, FALSE)

\* the body of the loop of _collect_buffer_free_requests
collect_buffer_free_request(got, buffer) ==
    LET id == BufferId(buffer)
    IN IF id \notin DOMAIN got.open_states
       THEN Collected(got.requests, got.open_states, TRUE)
       ELSE Collected(got.requests
                          \o (IF got.open_states[id]
                              THEN <<BufferCloseRequest(CatBufferFree, id)>>
                              ELSE <<>>)
                          \o <<BufferRequest(CatBufferFree, "b_free", id, FALSE)>>,
                      [i \in DOMAIN got.open_states \ {id} |-> got.open_states[i]],
                      FALSE)

\* what the collectors of one offset go through, in their order: the
\* buffers to allocate, the events of a category, requests that do not
\* touch buffer_open_states, the buffers to free
AllocateItems(start_buffers) ==
    [i \in DOMAIN start_buffers |-> [kind |-> "allocate", buffer |-> start_buffers[i]]]

EventItems(cat, buffer_events_at) ==
    [i \in DOMAIN buffer_events_at |->
        [kind |-> "event", cat |-> cat, event |-> buffer_events_at[i]]]

RequestItems(requests) ==
    [i \in DOMAIN requests |-> [kind |-> "request", request |-> requests[i]]]

FreeItems(stop_buffers) ==
    [i \in DOMAIN stop_buffers |-> [kind |-> "free", buffer |-> stop_buffers[i]]]

collect_item(got, item) ==
    CASE item.kind = "allocate" ->
             collect_buffer_allocate_request(got, CatBufferAllocate, item.buffer)
      [] item.kind = "event" ->
             collect_buffer_nonlifecycle_request(got, item.cat, item.event)
      [] item.kind = "request" ->
             Collected(Append(got.requests, item.request), got.open_states, FALSE)
      [] item.kind = "free" ->
             collect_buffer_free_request(got, item.buffer)

RECURSIVE collect_items(_, _)
\* the items one after the other, until one raises; what an item leaves is
\* worked out once and handed on
collect_items(got, items) ==
    IF items = <<>> \/ got.raised THEN got
    ELSE Only({collect_items(next, Tail(items)) :
                  next \in {collect_item(got, Head(items))}})

\* _collect_requests_at_offset with the buffer categories, on the session
\* that already holds a State at offset
collect_requests_at_offset_with_buffers(S, ns, bufs, evs, open_states, id_mapping, is_last_offset, offset, visited_synthdefs) ==
    LET durated == collect_durated_objects(S, ns, offset, is_last_offset)
        state == S.states[offset]
        stop_buffers == state.stop_buffers \cup
                            (IF is_last_offset THEN overlap_buffers(bufs, offset) ELSE {})
        node_actions == state.transitions
    IN collect_items(
           Collected(<<>>, open_states, FALSE),
           RequestItems(collect_synthdef_requests(ns, durated.start_nodes,
                                                  visited_synthdefs))
               \o AllocateItems(SortSet(state.start_buffers))
               \o EventItems(CatBufferPostAlloc,
                             buffer_settings_of_types(bufs, evs, offset,
                                                      PostAllocRequestTypes))
               \o RequestItems(collect_node_action_requests(ns, id_mapping, node_actions,
                                                            durated.start_nodes))
               \o RequestItems(collect_node_free_requests(ns, id_mapping,
                                                          durated.stop_nodes))
               \o EventItems(CatBufferPreFree,
                             buffer_settings_of_types(bufs, evs, offset,
                                                      PreFreeRequestTypes))
               \o FreeItems(SortSet(stop_buffers)))

RECURSIVE compile_loop_with_buffers(_, _, _, _, _, _, _, _, _, _, _)
\* the for loop of _to_non_xrefd_request_bundles, buffer_open_states
\* carried from offset to offset
compile_loop_with_buffers(S, ns, bufs, evs, open_states, rendered, k, duration, id_mapping, visited_synthdefs, request_bundles) ==
    IF k > Len(rendered)
    THEN [session |-> S, bundles |-> request_bundles, raised |-> FALSE]
    ELSE LET offset == rendered[k]
             is_last_offset == offset = duration
             S1 == find_state_at(S, offset)
             visited == visited_synthdefs \cup
                            new_synthdefs(ns, S1.states[offset].start_nodes,
                                          visited_synthdefs)
         IN Only({
                LET requests == IF is_last_offset
                                THEN Append(collected.requests, NothingRequest)
                                ELSE collected.requests
                    bundles == IF requests # <<>>
                               THEN Append(request_bundles,
                                           [timestamp |-> offset, contents |-> requests])
                               ELSE request_bundles
                IN IF collected.raised
                   THEN [session |-> S1, bundles |-> <<>>, raised |-> TRUE]
                   ELSE IF is_last_offset
                   THEN [session |-> S1, bundles |-> bundles, raised |-> FALSE]
                   ELSE compile_loop_with_buffers(S1, ns, bufs, evs,
                                                  collected.open_states, rendered,
                                                  k + 1, duration, id_mapping,
                                                  visited, bundles) :
                collected \in {collect_requests_at_offset_with_buffers(
                                   S1, ns, bufs, evs, open_states, id_mapping,
                                   is_last_offset, offset, visited_synthdefs)}})

\* _to_non_xrefd_request_bundles of a session with buffers
to_non_xrefd_request_bundles_with_buffers(S, ns, bufs, evs, duration) ==
    LET id_mapping == build_id_mapping(S)
    IN IF ~duration_assertion_holds(S, duration)
       THEN [ok |-> FALSE, session |-> S, bundles |-> <<>>, idmap |-> id_mapping,
             duration |-> NoDuration]
       ELSE LET d == effective_duration(S, duration)
                result == compile_loop_with_buffers(
                              S, ns, bufs, evs, <<>>, render_offsets(S, d), 1, d,
                              id_mapping, {}, <<>>)
            IN [ok |-> ~result.raised, session |-> result.session,
                bundles |-> result.bundles, idmap |-> id_mapping,
                duration |-> d]

(***************************************************************************)
(* Synth parameter automation (tools/nonrealtimetools/Synth.py).  A        *)
(* breakpoint is a tuple <<timestep, value>>, timestep relative to the     *)
(* Synth's start offset; Python compares the tuples lexicographically.     *)
(***************************************************************************)
Items == {"amplitude", "frequency"}
Values == {0 - 1, 1, 2}

\* synthdef.parameters[item].value, the default the definition declares
DefaultValue == 0

\* the item has no entry in synth_kwargs
NoValue == NegInf - 4

\* the synth_kwargs of a Synth created without keyword values
NoKwargs == [item \in Items |-> NoValue]

\* fault variant of the creation-time value: the keyword value given at
\* creation is not looked at
creation_value_declared(sy, item) == DefaultValue

\* default = self._synth_kwargs.get(item, synthdef.parameters[item].value)
creation_value(sy, item) ==
    IF sy.synth_kwargs[item] # NoValue THEN sy.synth_kwargs[item] ELSE DefaultValue

TupleLess(a, b) == a[1] < b[1] \/ (a[1] = b[1] /\ a[2] < b[2])

\* bisect.bisect_left(events, event) on a list of tuples
bisect_left_events(evs, event) ==
    Cardinality({i \in DOMAIN evs : TupleLess(evs[i], event)})

\* Timespan.duration
synth_duration(sy) == IF sy.stop = Inf THEN Inf ELSE sy.stop - sy.start

\* Synth._get_at_timestep(timestep, item): the value returned
get_at_timestep(sy, evs, timestep, item) ==
    LET t == timestep - sy.start
        default == creation_value(sy, item)
        index == bisect_left_events(evs, <<t, 0>>)
        old == IF Len(evs) <= index THEN evs[Len(evs)] ELSE evs[index + 1]
    IN IF evs = <<>> THEN default
       ELSE IF old[1] = t THEN old[2]
       ELSE IF index - 1 < 0 THEN default
       ELSE evs[index][2]

\* fault variant of _set_at_timestep: the test of the timestep against the
\* Synth's timespan is missing
set_at_timestep_unguarded(sy, evs, timestep, value) ==
    LET t == timestep - sy.start
        new_event == <<t, value>>
        index == bisect_left_events(evs, new_event)
    IN IF evs = <<>> THEN <<new_event>>
       ELSE IF Len(evs) <= index THEN Append(evs, new_event)
       ELSE IF evs[index + 1][1] = t THEN [evs EXCEPT ![index + 1] = new_event]
       ELSE InsertAt(evs, index, new_event)

\* Synth._set_at_timestep(timestep, item, value): the list afterwards
set_at_timestep(sy, evs, timestep, value) ==
    LET t == timestep - sy.start
        new_event == <<t, value>>
        index == bisect_left_events(evs, new_event)
    IN IF t < 0 \/ synth_duration(sy) < t THEN evs
       ELSE IF evs = <<>> THEN <<new_event>>
       ELSE IF Len(evs) <= index THEN Append(evs, new_event)
       ELSE IF evs[index + 1][1] = t THEN [evs EXCEPT ![index + 1] = new_event]
       ELSE InsertAt(evs, index, new_event)

(***************************************************************************)
(* Return value of the last call.                                          *)
(***************************************************************************)
\* arg is the argument of an at() or of a compile, prev the argument
\* of the compile just before this one (NoCompile for none); duration is
\* the render duration a compile settled on; nth counts the compiles made
\* in a row, this one included
Ret(op, ok, arg) ==
    [op |-> op, ok |-> ok, arg |-> arg, prev |-> NoCompile,
     duration |-> NoDuration, bundles |-> <<>>, idmap |-> <<>>, nth |-> 0,
     item |-> ""]

\* what a call other than at() or a compile leaves behind
Returned == Ret("call", TRUE, NoDuration)

Session == [offsets |-> offsets, states |-> states]

\* the session has no automated Synth
NoSynth == [start |-> 0, stop |-> 0, synth_kwargs |-> NoKwargs]

\* a session without hardware bus channels; the counts matter to the bus
\* id mapping only
NoHardwareBuses == [input_count |-> 0, output_count |-> 0]

\* no pass of the transition resolver is under way
NoPass ==
    [queue |-> <<>>, previous_offset |-> NoState, seeds |-> <<>>, steps |-> <<>>]

(***************************************************************************)
(* Session.__init__ / _setup_initial_states.                               *)
(***************************************************************************)
Init ==
    /\ offsets = <<NegInf, 0>>
    /\ states = (NegInf :> [NewState(NegInf) EXCEPT !.ntc = (RootNode :> <<>>)])
                @@ (0 :> [NewState(0) EXCEPT !.ntc = (RootNode :> <<>>)])
    /\ active_moments = <<>>
    /\ nodes = <<>>
    /\ ret = Returned
    /\ synth = NoSynth
    /\ events = [item \in Items |-> <<>>]
    /\ log = <<>>
    /\ buffers = <<>>
    /\ buffer_events = <<>>
    /\ options = NoHardwareBuses
    /\ buses = <<>>
    /\ resolver = NoPass

\* fault variant of Session.at: the State is looked up or created and the
\* moment entered before the offset is validated
At_late_assert(offset) ==
    /\ ret.op # "compile"
    /\ Len(active_moments) < MaxDepth
    /\ LET S == at_state(Session, offset)
       IN /\ offsets' = S.offsets
          /\ states' = S.states
          /\ active_moments' = Append(active_moments, offset)
          /\ ret' = Ret("at", 0 <= offset, offset)
    /\ UNCHANGED <<nodes, synth_vars, buffers, buffer_events, bus_vars, resolver>>

(***************************************************************************)
(* with session.at(offset): Session.at followed by Moment.__enter__.       *)
(***************************************************************************)
At(offset) ==
    /\ ret.op # "compile"
    /\ (0 <= offset => Len(active_moments) < MaxDepth)
    /\ IF 0 <= offset
       THEN LET S == at_state(Session, offset)
            IN /\ offsets' = S.offsets
               /\ states' = S.states
               /\ active_moments' = Append(active_moments, offset)
               /\ ret' = Ret("at", TRUE, offset)
       ELSE \* assert 0 <= offset fails before anything is touched
            /\ ret' = Ret("at", FALSE, offset)
            /\ UNCHANGED <<offsets, states, active_moments>>
    /\ UNCHANGED <<nodes, synth_vars, buffers, buffer_events, bus_vars, resolver>>

\* fault variant of Moment.__exit__: a moment whose body raised stays on
\* the stack
ExitMoment_unless_raised ==
    /\ active_moments # <<>>
    /\ active_moments' = IF ret.ok
                         THEN SubSeq(active_moments, 1, Len(active_moments) - 1)
                         ELSE active_moments
    /\ ret' = Ret("exit", ret.ok, NoDuration)
    /\ UNCHANGED <<offsets, states, nodes, synth_vars, buffers, buffer_events, bus_vars, resolver>>

\* Moment.__exit__: pops the innermost moment.  The scope is left right
\* after a call that failed when that call's exception leaves the body;
\* the exception then goes on to the caller (ok is FALSE).
ExitMoment ==
    /\ active_moments # <<>>
    /\ active_moments' = SubSeq(active_moments, 1, Len(active_moments) - 1)
    /\ ret' = Ret("exit", ret.ok, NoDuration)
    /\ UNCHANGED <<offsets, states, nodes, synth_vars, buffers, buffer_events, bus_vars, resolver>>

\* fault variant of the write target: the outermost active moment
ActiveOffset_outermost == active_moments[1]

\* self.active_moments[-1]: the offset of the innermost active moment
ActiveOffset == active_moments[Len(active_moments)]

\* target.add_group(add_action, duration) / target.add_synth(add_action,
\* duration, synthdef) inside a moment
AddNode(target, action, duration, kind, synthdef) ==
    /\ active_moments # <<>>
    /\ target \in DOMAIN states[ActiveOffset].ntc
    /\ action \in ValidAddActions(nodes, target)
    /\ LET n == Len(nodes) + 1
           start == ActiveOffset
           stop == IF duration = Inf THEN Inf ELSE start + duration
           S == add_node(Session, n, start, stop, target, action)
       IN /\ WellFormed(S)
          /\ offsets' = S.offsets
          /\ states' = S.states
          /\ nodes' = Append(nodes, [kind |-> kind, synthdef |-> synthdef,
                                     start |-> start, stop |-> stop,
                                     deleted |-> FALSE])
          /\ ret' = Returned
    /\ UNCHANGED <<active_moments, synth_vars, buffers, buffer_events, bus_vars, resolver>>

AddGroup(target, action, duration) ==
    AddNode(target, action, duration, "group", 0)

AddSynth(target, action, duration, synthdef) ==
    AddNode(target, action, duration, "synth", synthdef)

\* the transitions of the session that move a node (their source does not
\* start at that offset)
RecordedMoves(S) ==
    Cardinality({<<o, i>> \in (DOMAIN S.states) \X (1..MaxTreeNodes) :
        /\ i \in DOMAIN S.states[o].transitions
        /\ S.states[o].transitions[i].source \notin S.states[o].start_nodes})

\* target.move_node(node, add_action) inside a moment in which both nodes
\* are alive
MoveNode(target, node, action) ==
    /\ active_moments # <<>>
    /\ RecordedMoves(Session) < MaxMoves
    /\ node \in DOMAIN nodes
    /\ node # target
    /\ node \in DOMAIN states[ActiveOffset].ntc
    /\ target \in DOMAIN states[ActiveOffset].ntc
    /\ action \in ValidAddActions(nodes, target)
    /\ LET S == move_node(Session, nodes, ActiveOffset, target, node, action)
       IN /\ WellFormed(S)
          /\ offsets' = S.offsets
          /\ states' = S.states
          /\ ret' = Returned
    /\ UNCHANGED <<active_moments, nodes, synth_vars, buffers, buffer_events, bus_vars, resolver>>

\* session._to_non_xrefd_request_bundles(duration), called outside any
\* moment once the timeline is built; a compile may be followed by another
\* with the same or a longer duration
Compile(duration) ==
    /\ active_moments = <<>>
    /\ ret.nth < MaxCompiles
    /\ ret.op = "compile" =>
          \/ duration = ret.arg
          \/ 0 < ret.arg /\ ret.arg < duration /\ duration < Inf
    /\ LET result == to_non_xrefd_request_bundles(Session, nodes, duration)
       IN /\ offsets' = result.session.offsets
          /\ states' = result.session.states
          /\ ret' = [op |-> "compile", ok |-> result.ok, arg |-> duration,
                     prev |-> IF ret.op = "compile" THEN ret.arg ELSE NoCompile,
                     duration |-> result.duration,
                     bundles |-> result.bundles, idmap |-> result.idmap,
                     nth |-> ret.nth + 1, item |-> ""]
    /\ UNCHANGED <<active_moments, nodes, synth_vars, buffers, buffer_events, bus_vars, resolver>>

DeletedNodes == {n \in DOMAIN nodes : nodes[n].deleted}

\* node.delete(), called outside any moment as in test_Node_delete.py
Delete(node) ==
    /\ active_moments = <<>>
    /\ node \in DOMAIN nodes
    /\ Cardinality(DeletedNodes) < MaxDeletes
    /\ ~nodes[node].deleted
    /\ LET S == delete_node(Session, nodes, node)
       IN /\ offsets' = S.offsets
          /\ states' = S.states
          /\ nodes' = [nodes EXCEPT ![node].deleted = TRUE]
          /\ ret' = Ret("delete", TRUE, node)
    /\ UNCHANGED <<active_moments, synth_vars, buffers, buffer_events, bus_vars, resolver>>

Durations == (0..MaxDuration) \cup {Inf}

\* the duration arguments of a compile: None, a negative one, 0, the finite
\* offsets of the model, and infinity
CompileDurations ==
    {NoDuration, Inf} \cup ((0 - 1)..(MaxOffset + MaxDuration))

\* the offsets at() is called with: a negative one and the finite offsets
AtOffsets == (0 - 1)..MaxOffset

Next ==
    \/ \E offset \in AtOffsets : At(offset)
    \/ ExitMoment
    \/ \E target \in 0..MaxNodes, action \in AddActions, duration \in Durations :
          Len(nodes) < MaxNodes /\ AddGroup(target, action, duration)
    \/ \E target \in 0..MaxNodes, action \in AddActions, duration \in Durations,
          synthdef \in SynthDefs :
          Len(nodes) < MaxNodes /\ AddSynth(target, action, duration, synthdef)
    \/ \E target \in 0..MaxNodes, node \in 1..MaxNodes, action \in AddActions :
          MoveNode(target, node, action)
    \/ \E duration \in CompileDurations : Compile(duration)

Spec == Init /\ [][Next]_vars

(***************************************************************************)
(* A session whose nodes all stop at the same offset, as in                *)
(* test_Node_delete.py: up to MaxTreeNodes nodes are placed and moved in   *)
(* moments that do not nest or go back, then nodes are deleted and it is   *)
(* compiled.                                                               *)
(***************************************************************************)
CommonStop == MaxOffset + MaxDuration

\* the one definition the synths of these sessions use
DefaultSynthDef == 1

NextDelete ==
    \/ \E offset \in 0..MaxOffset :
          /\ active_moments = <<>>
          /\ DeletedNodes = {}
          /\ \A n \in DOMAIN nodes : nodes[n].start <= offset
          /\ At(offset)
    \/ ExitMoment
    \/ \E target \in 0..MaxTreeNodes, action \in AddActions :
          /\ Len(nodes) < MaxTreeNodes
          /\ active_moments # <<>>
          /\ AddGroup(target, action, CommonStop - ActiveOffset)
    \/ \E target \in 0..MaxTreeNodes, action \in AddActions :
          /\ Len(nodes) < MaxTreeNodes
          /\ active_moments # <<>>
          /\ AddSynth(target, action, CommonStop - ActiveOffset, DefaultSynthDef)
    \/ \E target \in 0..MaxTreeNodes, node \in 1..MaxTreeNodes, action \in AddActions :
          MoveNode(target, node, action)
    \/ \E node \in 1..MaxTreeNodes : Delete(node)
    \/ ret.op # "compile" /\ Compile(NoDuration)

DeleteSpec == Init /\ [][NextDelete]_vars

(***************************************************************************)
(* Sessions like the one test_Node_delete.py test_01 starts from: up to    *)
(* MaxScenarioNodes nodes are added at the head or tail of the root or of  *)
(* a group in moments at offset 0, all with the same duration, and the     *)
(* session is compiled.                                                    *)
(***************************************************************************)
NextScenario ==
    \/ active_moments = <<>> /\ Len(nodes) < MaxScenarioNodes /\ At(0)
    \/ ExitMoment
    \/ \E target \in 0..MaxScenarioNodes, action \in {"ADD_TO_HEAD", "ADD_TO_TAIL"} :
          Len(nodes) < MaxScenarioNodes /\ AddGroup(target, action, CommonStop)
    \/ \E target \in 0..MaxScenarioNodes, action \in {"ADD_TO_HEAD", "ADD_TO_TAIL"} :
          Len(nodes) < MaxScenarioNodes
              /\ AddSynth(target, action, CommonStop, DefaultSynthDef)
    \/ ret.op # "compile" /\ Compile(NoDuration)

ScenarioSpec == Init /\ [][NextScenario]_vars

(***************************************************************************)
(* Session.add_buffer.  Buffers are named by their index in creation       *)
(* order; buffer i has session_id i - 1.                                   *)
(***************************************************************************)
\* the body of add_buffer from start_moment on: the session and the moment
\* stack afterwards.  The stop is recorded through a nested moment, which
\* is entered and left again.
add_buffer(S, moments, b, stop) ==
    LET start == moments[Len(moments)]
        S1 == [S EXCEPT !.states[start].start_buffers = @ \cup {b}]
        S2 == at_state(S1, stop)
        entered == Append(moments, stop)
        S3 == [S2 EXCEPT !.states[entered[Len(entered)]].stop_buffers = @ \cup {b}]
    IN [session |-> S3, moments |-> SubSeq(entered, 1, Len(entered) - 1)]

\* session.add_buffer(duration=duration), no offset argument given
AddBuffer(duration) ==
    /\ IF active_moments # <<>>
       THEN LET b == Len(buffers) + 1
                start == ActiveOffset
                stop == IF duration = Inf THEN Inf ELSE start + duration
                result == add_buffer(Session, active_moments, b, stop)
            IN /\ offsets' = result.session.offsets
               /\ states' = result.session.states
               /\ active_moments' = result.moments
               /\ buffers' = Append(buffers, [start |-> start, stop |-> stop])
               /\ ret' = Ret("add_buffer", TRUE, duration)
       ELSE \* start_moment = self.active_moments[-1] finds no moment
            /\ ret' = Ret("add_buffer", FALSE, duration)
            /\ UNCHANGED <<offsets, states, active_moments, buffers>>
    /\ UNCHANGED <<nodes, synth_vars, buffer_events, bus_vars, resolver>>

\* buffer.read(...), buffer.write(...) or buffer.zero() inside a moment:
\* the event is recorded at the moment's offset
BufferEvent(b, type, channel_indices, leave_open) ==
    /\ active_moments # <<>>
    /\ ret.op # "compile"
    /\ b \in DOMAIN buffers
    /\ Len(buffer_events) < MaxBufferEvents
    /\ buffer_events' = Append(buffer_events,
                               [buffer |-> b, offset |-> ActiveOffset, type |-> type,
                                channel_indices |-> channel_indices,
                                leave_open |-> leave_open])
    /\ ret' = Returned
    /\ UNCHANGED <<offsets, states, active_moments, nodes, synth_vars, buffers,
                   bus_vars, resolver>>

\* session._to_non_xrefd_request_bundles(duration) of a session with
\* buffers, called outside any moment
CompileWithBuffers(duration) ==
    /\ active_moments = <<>>
    /\ ret.op # "compile"
    /\ LET result == to_non_xrefd_request_bundles_with_buffers(
                         Session, nodes, buffers, buffer_events, duration)
       IN /\ offsets' = result.session.offsets
          /\ states' = result.session.states
          /\ ret' = [op |-> "compile", ok |-> result.ok, arg |-> duration,
                     prev |-> NoCompile, duration |-> result.duration,
                     bundles |-> result.bundles, idmap |-> result.idmap,
                     nth |-> 1, item |-> ""]
    /\ UNCHANGED <<active_moments, nodes, synth_vars, buffers, buffer_events,
                   bus_vars, resolver>>

(***************************************************************************)
(* A session with buffers: moments that do not nest are entered at the     *)
(* finite offsets, buffers are added, reads, writes and zeroings are       *)
(* recorded, and the session is compiled.                                  *)
(***************************************************************************)
BufferDurations == {MaxDuration, Inf}

NextBuffer ==
    \/ \E offset \in 0..MaxOffset :
          /\ active_moments = <<>>
          /\ ret.op # "compile"
          /\ \A i \in DOMAIN buffer_events : buffer_events[i].offset < offset
          /\ \A b \in DOMAIN buffers : buffers[b].start < offset
          /\ At(offset)
    \/ ExitMoment
    \/ \E duration \in BufferDurations :
          /\ Len(buffers) < MaxSessionBuffers
          /\ active_moments # <<>>
          /\ AddBuffer(duration)
    \/ \E b \in 1..MaxSessionBuffers, leave_open \in BOOLEAN :
          BufferEvent(b, "read", FALSE, leave_open)
    \/ \E b \in 1..MaxSessionBuffers, leave_open \in BOOLEAN :
          BufferEvent(b, "read", TRUE, leave_open)
    \/ \E b \in 1..MaxSessionBuffers, leave_open \in BOOLEAN :
          BufferEvent(b, "write", FALSE, leave_open)
    \/ \E b \in 1..MaxSessionBuffers : BufferEvent(b, "zero", FALSE, FALSE)
    \/ \E duration \in {NoDuration, MaxOffset + MaxDuration} :
          CompileWithBuffers(duration)

BufferSpec == Init /\ [][NextBuffer]_vars

(***************************************************************************)
(* A session with one automated Synth and buffers: moments are entered     *)
(* and left, buffers are added, and the Synth's parameters are read and    *)
(* written through synth[item].                                            *)
(***************************************************************************)
\* the timespans of the Synth: of zero duration, starting with the
\* session, starting later, and unbounded
SynthTimespans ==
    {[start |-> 0, stop |-> 0, synth_kwargs |-> NoKwargs],
     [start |-> 0, stop |-> 1, synth_kwargs |-> NoKwargs],
     [start |-> 1, stop |-> MaxTimestep, synth_kwargs |-> NoKwargs],
     [start |-> 1, stop |-> Inf, synth_kwargs |-> NoKwargs]}

InitSynth ==
    /\ offsets = <<NegInf, 0>>
    /\ states = (NegInf :> [NewState(NegInf) EXCEPT !.ntc = (RootNode :> <<>>)])
                @@ (0 :> [NewState(0) EXCEPT !.ntc = (RootNode :> <<>>)])
    /\ active_moments = <<>>
    /\ nodes = <<>>
    /\ ret = Returned
    /\ synth \in SynthTimespans
    /\ events = [item \in Items |-> <<>>]
    /\ log = <<>>
    /\ buffers = <<>>
    /\ buffer_events = <<>>
    /\ options = NoHardwareBuses
    /\ buses = <<>>
    /\ resolver = NoPass

\* fault variant of Synth.__setitem__: without an active moment the write
\* is made at timestep 0
SetItem_default_timestep(item, value) ==
    /\ Len(log) < MaxWrites
    /\ LET timestep == IF active_moments # <<>> THEN ActiveOffset ELSE 0
       IN /\ events' = [events EXCEPT ![item] =
                            set_at_timestep(synth, @, timestep, value)]
          /\ log' = Append(log, [item |-> item, timestep |-> timestep,
                                 value |-> value])
          /\ ret' = [Ret("setitem", active_moments # <<>>, value) EXCEPT !.item = item]
    /\ UNCHANGED <<offsets, states, active_moments, nodes, synth, buffers, buffer_events, bus_vars, resolver>>

\* synth[item] = value (Synth.__setitem__)
SetItem(item, value) ==
    /\ Len(log) < MaxWrites
    /\ IF active_moments # <<>>
       THEN /\ events' = [events EXCEPT ![item] =
                             set_at_timestep(synth, @, ActiveOffset, value)]
            /\ log' = Append(log, [item |-> item, timestep |-> ActiveOffset,
                                   value |-> value])
            /\ ret' = [Ret("setitem", TRUE, value) EXCEPT !.item = item]
       ELSE \* assert self.session._session_moments
            /\ ret' = [Ret("setitem", FALSE, value) EXCEPT !.item = item]
            /\ UNCHANGED <<events, log>>
    /\ UNCHANGED <<offsets, states, active_moments, nodes, synth, buffers, buffer_events, bus_vars, resolver>>

\* synth[item] (Synth.__getitem__): arg is the value returned
GetItem(item) ==
    /\ IF active_moments # <<>>
       THEN ret' = [Ret("getitem", TRUE,
                        get_at_timestep(synth, events[item], ActiveOffset, item))
                       EXCEPT !.item = item]
       ELSE \* assert self.session._session_moments
            ret' = [Ret("getitem", FALSE, NoDuration) EXCEPT !.item = item]
    /\ UNCHANGED <<offsets, states, active_moments, nodes, synth_vars, buffers, buffer_events, bus_vars, resolver>>

\* the offsets at() is called with in a session with an automated Synth
SynthOffsets == (0 - 1)..MaxTimestep

NextSynth ==
    \/ \E offset \in SynthOffsets : At(offset)
    \/ ExitMoment
    \/ \E item \in Items, value \in Values : SetItem(item, value)
    \/ \E item \in Items : GetItem(item)
    \/ \E duration \in Durations : Len(buffers) < MaxBuffers /\ AddBuffer(duration)

SynthSpec == InitSynth /\ [][NextSynth]_vars

(***************************************************************************)
(* Properties.                                                             *)
(***************************************************************************)
\* C6: after any sequence of at(), node creation, clone-if-missing lookups
\* and compiles the offset list is strictly increasing and contains
\* negative infinity and 0.0
C6_OffsetsStrictlyIncreasing ==
    /\ \A i \in 1..(Len(offsets) - 1) : offsets[i] < offsets[i + 1]
    /\ NegInf \in SeqToSet(offsets)
    /\ 0 \in SeqToSet(offsets)

\* a compile has cloned a State into a timeline that at() and two nodes
\* had already extended
C6_Witness ==
    /\ ret.op = "compile"
    /\ Len(nodes) = MaxNodes
    /\ Len(offsets) >= 5
    /\ \E i \in 2..(Len(offsets) - 1) :
          /\ offsets[i] # 0
          /\ states[offsets[i]].start_nodes = {}
          /\ states[offsets[i]].stop_nodes = {}

\* C7: at(offset) with a negative offset fails and leaves the offset list,
\* the State mapping and the stack of active moments as they were
C7_NegativeAtFailsUnchanged ==
    [][(ret'.op = "at" /\ ret'.arg < 0) =>
          /\ ~ret'.ok
          /\ offsets' = offsets
          /\ states' = states
          /\ active_moments' = active_moments]_vars

\* at() has just failed inside an active moment of a session with nodes
C7_Witness ==
    /\ ret.op = "at" /\ ~ret.ok /\ ret.arg < 0
    /\ active_moments # <<>>
    /\ nodes # <<>>

\* the last call was a compile that returned bundles
Compiled == ret.op = "compile" /\ ret.ok

\* the requests of category cat in a bundle, in their order
OfCategory(bundle, cat) == SelectSeq(bundle.contents, LAMBDA r : r.cat = cat)

\* the requests of one wire type in a bundle, in their order
OfType(bundle, type) == SelectSeq(bundle.contents, LAMBDA r : r.type = type)

Ascending(seq) == \A i \in 1..(Len(seq) - 1) : seq[i] < seq[i + 1]

\* the timestamps of the bundles returned
Timestamps == {ret.bundles[i].timestamp : i \in DOMAIN ret.bundles}

C8_SentinelEndsCompile ==
    Compiled =>
        /\ ret.bundles # <<>>
        /\ LET last == ret.bundles[Len(ret.bundles)]
           IN /\ last.timestamp = ret.duration
              /\ last.contents[Len(last.contents)] = NothingRequest
        /\ Cardinality({<<b, i>> \in (DOMAIN ret.bundles) \X (1..(2 * MaxNodes + 3)) :
               /\ i \in DOMAIN ret.bundles[b].contents
               /\ ret.bundles[b].contents[i].type = "nothing"}) = 1

\* a compile of several bundles cut a session short that has later offsets
C8_Witness ==
    /\ Compiled
    /\ Len(ret.bundles) >= 2
    /\ Len(ret.bundles[Len(ret.bundles)].contents) >= 2
    /\ \E i \in DOMAIN offsets : ret.duration < offsets[i] /\ offsets[i] < Inf

\* C9: the bundle sequence has strictly increasing timestamps, no bundle
\* without requests, at most one bundle per offset and no bundle after the
\* render duration, even when the session has later offsets
C9_BundleSequenceShape ==
    Compiled =>
        /\ \A b \in 1..(Len(ret.bundles) - 1) :
               ret.bundles[b].timestamp < ret.bundles[b + 1].timestamp
        /\ \A b \in DOMAIN ret.bundles, c \in DOMAIN ret.bundles :
               b # c => ret.bundles[b].timestamp # ret.bundles[c].timestamp
        /\ \A b \in DOMAIN ret.bundles :
               /\ ret.bundles[b].contents # <<>>
               /\ ret.bundles[b].timestamp <= ret.duration

\* the session holds a State with nodes to free after the render duration,
\* and an offset before it that produced no bundle
C9_Witness ==
    /\ Compiled
    /\ Len(ret.bundles) >= 2
    /\ \E i \in DOMAIN offsets :
          /\ ret.duration < offsets[i]
          /\ states[offsets[i]].stop_nodes # {}
    /\ \E i \in DOMAIN offsets :
          /\ 0 <= offsets[i] /\ offsets[i] < ret.duration
          /\ offsets[i] \notin Timestamps

\* C10 as stated: a compile fails and emits no bundle when the effective
\* duration is non-positive or infinite; a session with an unbounded node
\* needs an explicit finite positive duration, and an explicit duration
\* <= 0 is rejected
C10_CompileRejectsBadDuration ==
    LET explicit == ret.arg # NoDuration
        unbounded == \E n \in DOMAIN nodes : nodes[n].stop = Inf
        bad == IF explicit
               THEN ~(0 < ret.arg /\ ret.arg < Inf)
               ELSE unbounded \/ session_duration(offsets) <= 0
    IN (ret.op = "compile" /\ bad) => (~ret.ok /\ ret.bundles = <<>>)

(***************************************************************************)
(* A model server: the tree of wire-level node ids, root 0 only at the     *)
(* start, changed by the node requests of the bundles in their order.      *)
(***************************************************************************)
ServerApply(tree, request) ==
    CASE request.type \in {"g_new", "s_new"} ->
             IF request.id \in DOMAIN tree THEN tree
             ELSE ApplyTransform(tree, [source |-> request.id,
                                        target |-> request.target,
                                        action |-> request.action])
      [] request.type \in {"g_head", "g_tail", "n_before", "n_after"} ->
             IF request.id \notin DOMAIN tree THEN tree
             ELSE ApplyTransform(tree, [source |-> request.id,
                                        target |-> request.target,
                                        action |-> request.action])
      [] request.type = "n_free" -> FreeNodes(tree, request.ids)
      [] request.type = "n_set_gate_0" -> FreeNode(tree, request.id)
      [] OTHER -> tree

RECURSIVE ServerReplay(_, _)
ServerReplay(tree, requests) ==
    IF requests = <<>> THEN tree
    ELSE ServerReplay(ServerApply(tree, Head(requests)), Tail(requests))

RECURSIVE ServerAt(_, _, _)
\* the server's tree once every bundle with a timestamp <= t is applied
ServerAt(tree, bundles, t) ==
    IF bundles = <<>> \/ Head(bundles).timestamp > t THEN tree
    ELSE ServerAt(ServerReplay(tree, Head(bundles).contents), Tail(bundles), t)

\* a State's tree with every node replaced by its id
IdTree(ntc, id_mapping) ==
    [id \in {id_mapping[n] : n \in DOMAIN ntc} |->
        LET n == CHOOSE m \in DOMAIN ntc : id_mapping[m] = id
        IN [k \in DOMAIN ntc[n] |-> id_mapping[ntc[n][k]]]]

\* C1: at every render offset t before the duration, the model server that
\* applied the node requests of all bundles with timestamp <= t holds
\* exactly the tree of the resolved State at t (gate-off counted as
\* removal).  The duration itself is left out: the final bundle also
\* releases the nodes the render cuts short, which the State there holds.
C1_ReplayEquivalence ==
    Compiled =>
        \A i \in 2..Len(offsets) :
            offsets[i] < ret.duration =>
                ServerAt((0 :> <<>>), ret.bundles, offsets[i])
                    = IdTree(states[offsets[i]].ntc, ret.idmap)

StartBefore(d) == {n \in DOMAIN nodes : nodes[n].start < d}

\* the bundles with a timestamp before d
Before(bundles, d) == SelectSeq(bundles, LAMBDA b : b.timestamp < d)

BundleAt(t) == {ret.bundles[b] : b \in {c \in DOMAIN ret.bundles : ret.bundles[c].timestamp = t}}

\* how many requests of the bundle release the node id: gate-off requests
\* addressed to it and node-free requests listing it
GateOffs(bundle, id) == Len(SelectSeq(bundle.contents, LAMBDA r : r.type = "n_set_gate_0" /\ r.id = id))
FreesOf(bundle, id) == Len(SelectSeq(bundle.contents, LAMBDA r : r.type = "n_free" /\ id \in SeqToSet(r.ids)))

\* C11: for every node stopping at an offset T <= duration the bundle at T
\* holds exactly one release request for it: a gate-off when its definition
\* declares a gate, else its id in a node-free request; groups and synths
\* of zero duration included
C11_OneReleasePerStoppingNode ==
    Compiled =>
        \A n \in DOMAIN nodes :
            nodes[n].stop <= ret.duration =>
                /\ BundleAt(nodes[n].stop) # {}
                /\ \A bundle \in BundleAt(nodes[n].stop) :
                       IF HasGate(nodes, n)
                       THEN /\ GateOffs(bundle, ret.idmap[n]) = 1
                            /\ FreesOf(bundle, ret.idmap[n]) = 0
                       ELSE /\ GateOffs(bundle, ret.idmap[n]) = 0
                            /\ FreesOf(bundle, ret.idmap[n]) = 1

\* C12: per offset at most one node-free request; its ids are ascending and
\* it precedes every gate-off of the offset; gate-offs are one per node in
\* ascending id order; no id is both freed and gated off
C12_FreeBatchThenGateOffs ==
    Compiled =>
        \A b \in DOMAIN ret.bundles :
            LET contents == ret.bundles[b].contents
                frees == OfType(ret.bundles[b], "n_free")
                gates == OfType(ret.bundles[b], "n_set_gate_0")
            IN /\ Len(frees) <= 1
               /\ \A i \in DOMAIN frees : Ascending(frees[i].ids)
               /\ \A i \in DOMAIN contents, j \in DOMAIN contents :
                      (contents[i].type = "n_free" /\ contents[j].type = "n_set_gate_0")
                          => i < j
               /\ Ascending([i \in DOMAIN gates |-> gates[i].id])
               /\ \A i \in DOMAIN frees, j \in DOMAIN gates :
                      gates[j].id \notin SeqToSet(frees[i].ids)
               \* every node of positive duration that this offset
               \* releases without a gate is listed, once
               /\ \A n \in DOMAIN nodes :
                      (/\ nodes[n].start < nodes[n].stop
                       /\ ~HasGate(nodes, n)
                       /\ \/ nodes[n].stop = ret.bundles[b].timestamp
                          \/ /\ ret.bundles[b].timestamp = ret.duration
                             /\ nodes[n].start < ret.duration
                             /\ ret.duration < nodes[n].stop)
                          => FreesOf(ret.bundles[b], ret.idmap[n]) = 1

\* a bundle before the last one holds a node-free request and a gate-off
C12_Witness ==
    /\ Compiled
    /\ \E b \in 1..(Len(ret.bundles) - 1) :
          /\ OfType(ret.bundles[b], "n_free") # <<>>
          /\ OfType(ret.bundles[b], "n_set_gate_0") # <<>>

\* the positions <<bundle, index>> of the requests of one wire type
PositionsOf(type) ==
    {<<b, i>> \in (DOMAIN ret.bundles) \X (1..(2 * MaxNodes + 3)) :
        /\ i \in DOMAIN ret.bundles[b].contents
        /\ ret.bundles[b].contents[i].type = type}

RequestAt(pos) == ret.bundles[pos[1]].contents[pos[2]]

\* pos is earlier in the bundle sequence than other
Earlier(pos, other) ==
    pos[1] < other[1] \/ (pos[1] = other[1] /\ pos[2] < other[2])

\* C13: every synth-new request is preceded in the bundle sequence by a
\* definition-receive for its definition; a definition is received at most
\* once per compile; the definitions first used at one offset are received
\* in ascending order of their name
C13_DefinitionReceivedOnceBeforeUse ==
    Compiled =>
        /\ \A new \in PositionsOf("s_new") :
               \E recv \in PositionsOf("d_recv") :
                   /\ RequestAt(recv).synthdef = RequestAt(new).synthdef
                   /\ Earlier(recv, new)
        /\ \A r1 \in PositionsOf("d_recv"), r2 \in PositionsOf("d_recv") :
               RequestAt(r1).synthdef = RequestAt(r2).synthdef => r1 = r2
        /\ \A b \in DOMAIN ret.bundles :
               LET recvs == OfType(ret.bundles[b], "d_recv")
               IN Ascending([i \in DOMAIN recvs |-> recvs[i].synthdef])

\* two synths of one definition started at different offsets, both within
\* the render
C13_Witness ==
    /\ Compiled
    /\ Cardinality(PositionsOf("s_new")) = 2
    /\ Cardinality(PositionsOf("d_recv")) = 1
    /\ Cardinality({pos[1] : pos \in PositionsOf("s_new")}) = 2

(***************************************************************************)
(* Properties of the parameter automation.                                 *)
(***************************************************************************)
\* the offset of the most recently entered moment that is still active
Innermost == active_moments[Len(active_moments)]

\* the timestep of the innermost moment relative to the Synth's start
RelativeTimestep == Innermost - synth.start

\* a timestep relative to the Synth's start lies within its timespan
InTimespan(t) == 0 <= t /\ t <= synth_duration(synth)

\* the positions in the log of the writes to item that were made within
\* the Synth's timespan, at or before relative time t
WritesUpTo(item, t) ==
    {i \in DOMAIN log :
        /\ log[i].item = item
        /\ InTimespan(log[i].timestep - synth.start)
        /\ log[i].timestep - synth.start <= t}

\* the value a read of item at relative time t is to return: that of the
\* most recent write at the latest written time <= t
HeldValue(item, t) ==
    LET w == WritesUpTo(item, t)
        latest == CHOOSE i \in w : \A j \in w : log[j].timestep <= log[i].timestep
        at_latest == {i \in w : log[i].timestep = log[latest].timestep}
    IN log[CHOOSE i \in at_latest : \A j \in at_latest : j <= i].value

\* C14: a read at time T returns the value of the most recent write at T,
\* and a read at any T' in [T, next breakpoint) the value written at T,
\* whatever writes came before, repeated writes at one time included
C14_HeldValueLaw ==
    (ret.op = "getitem" /\ ret.ok /\ WritesUpTo(ret.item, RelativeTimestep) # {})
        => ret.arg = HeldValue(ret.item, RelativeTimestep)

\* the breakpoints of a list have strictly increasing times
OnePerTime(evs) == \A i \in 1..(Len(evs) - 1) : evs[i][1] < evs[i + 1][1]

\* C15: after any sequence of point writes every breakpoint list is sorted
\* by time with at most one breakpoint per time; a write at a time that has
\* a breakpoint leaves the length as it was, a write at a new time adds one
C15_BreakpointsSortedOnePerTime ==
    [][\A item \in Items :
          /\ OnePerTime(events'[item])
          /\ events'[item] # events[item] =>
                Len(events'[item]) =
                    IF \E i \in DOMAIN events[item] :
                           events[item][i][1] = RelativeTimestep
                    THEN Len(events[item])
                    ELSE Len(events[item]) + 1]_vars

\* C16: a point write before the Synth's start or after its stop returns
\* normally and leaves every breakpoint list alone; a write at any time of
\* the timespan, its first and last instant included, is recorded
C16_WritesOutsideTimespanIgnored ==
    [][(ret'.op = "setitem" /\ active_moments # <<>>) =>
          /\ ret'.ok
          /\ IF InTimespan(RelativeTimestep)
             THEN <<RelativeTimestep, ret'.arg>> \in SeqToSet(events'[ret'.item])
             ELSE events' = events]_vars

\* a write after the stop of a Synth of positive duration has just
\* returned, after a write at its last instant
C16_Witness ==
    /\ ret.op = "setitem" /\ ret.ok
    /\ active_moments # <<>>
    /\ synth_duration(synth) < RelativeTimestep
    /\ 0 < synth_duration(synth)
    /\ \E item \in Items :
          /\ Len(events[item]) = 1
          /\ events[item][1][1] = synth_duration(synth)

(***************************************************************************)
(* Properties of the moment stack.                                         *)
(***************************************************************************)
\* the offsets other than o whose State a step changed in the fields that
\* record buffers
BufferRecordsChanged ==
    {o \in DOMAIN states' :
        \/ o \notin DOMAIN states
           /\ (states'[o].start_buffers # {} \/ states'[o].stop_buffers # {})
        \/ o \in DOMAIN states
           /\ \/ states'[o].start_buffers # states[o].start_buffers
              \/ states'[o].stop_buffers # states[o].stop_buffers}

\* C17: moments nest as a stack.  A creation or mutation call made while
\* several moments are active records into the State, or at the timestep,
\* of the innermost one only; add_buffer records the start there and the
\* stop in the State at the stop offset, and leaves the stack as it was;
\* leaving a moment makes the one entered before it the target again
C17_InnermostMomentIsTarget ==
    [][/\ (ret'.op = "add_buffer" /\ ret'.ok) =>
             LET b == Len(buffers')
             IN /\ Len(buffers') = Len(buffers) + 1
                /\ buffers'[b].start = Innermost
                /\ b \in states'[Innermost].start_buffers
                /\ b \in states'[buffers'[b].stop].stop_buffers
                /\ BufferRecordsChanged \subseteq {Innermost, buffers'[b].stop}
                /\ active_moments' = active_moments
       /\ (ret'.op = "setitem" /\ ret'.ok /\ events' # events) =>
             /\ <<Innermost - synth.start, ret'.arg>> \in SeqToSet(events'[ret'.item])
             /\ \A m \in DOMAIN active_moments :
                    (/\ active_moments[m] # Innermost
                     /\ <<active_moments[m] - synth.start, ret'.arg>>
                            \in SeqToSet(events'[ret'.item]))
                        => <<active_moments[m] - synth.start, ret'.arg>>
                            \in SeqToSet(events[ret'.item])
       /\ ret'.op = "exit" =>
             active_moments = Append(active_moments', Innermost)]_vars

\* inside two nested moments at different offsets a buffer was added that
\* stops at a third offset
C17_Witness ==
    /\ ret.op = "add_buffer" /\ ret.ok
    /\ Len(active_moments) = 2
    /\ active_moments[1] # active_moments[2]
    /\ buffers[Len(buffers)].stop \notin SeqToSet(active_moments)
    /\ buffers[Len(buffers)].stop < Inf

C19_NoMomentNoMutation ==
    [][(ret'.op \in {"getitem", "setitem", "add_buffer"} /\ active_moments = <<>>) =>
          /\ ~ret'.ok
          /\ UNCHANGED <<offsets, states, active_moments, nodes, events, buffers>>]_vars

\* a parameter write has just failed for want of a moment, in a session
\* that holds a breakpoint and a buffer
C19_Witness ==
    /\ ret.op = "setitem" /\ ~ret.ok
    /\ active_moments = <<>>
    /\ \E item \in Items : events[item] # <<>>
    /\ buffers # <<>>

(***************************************************************************)
(* Node.delete                                                             *)
(***************************************************************************)
\* new is old with g taken out and the children of g standing where g stood
\* among the children of its parent; a tree without g is left as it is
Reparented(old, new, g) ==
    IF g \notin DOMAIN old THEN new = old
    ELSE /\ DOMAIN new = DOMAIN old \ {g}
         /\ \A x \in DOMAIN new :
               IF g \in SeqToSet(old[x])
               THEN \E i \in DOMAIN old[x] :
                       /\ old[x][i] = g
                       /\ Len(new[x]) = Len(old[x]) - 1 + Len(old[g])
                       /\ \A k \in 1..(i - 1) : new[x][k] = old[x][k]
                       /\ \A k \in DOMAIN old[g] : new[x][i - 1 + k] = old[g][k]
                       /\ \A k \in (i + 1)..Len(old[x]) :
                             new[x][k - 1 + Len(old[g])] = old[x][k]
               ELSE new[x] = old[x]

\* the State mentions node g in its tree, its start or stop set or a
\* transition
RefersTo(state, g) ==
    \/ g \in DOMAIN state.ntc
    \/ \E x \in DOMAIN state.ntc : g \in SeqToSet(state.ntc[x])
    \/ g \in state.start_nodes \cup state.stop_nodes
    \/ \E i \in DOMAIN state.transitions :
          state.transitions[i].source = g \/ state.transitions[i].target = g

\* the request names the session id as its node, its target or a freed node
RequestRefersTo(r, id) ==
    r.type # "d_recv" /\ (r.id = id \/ r.target = id \/ id \in SeqToSet(r.ids))

\* replaying the transitions of every State over the tree of the State
\* before it gives the tree the State holds
TransitionsReproduceTrees(S) ==
    \A i \in 2..Len(S.offsets) :
        LET state == S.states[S.offsets[i]]
            previous == find_state_before(S.offsets, S.states, S.offsets[i], TRUE)
        IN /\ ReplayClean(state.transitions, S.states[previous].ntc, state.start_nodes)
           /\ state.ntc = StateApplyTransitions(state.transitions,
                                                S.states[previous].ntc,
                                                state.stop_nodes)

\* C20: deleting a node puts its children in its place among the children
\* of its parent in every State that held it; afterwards no State mentions
\* the node in a tree or a transition, the transitions name surviving nodes
\* only and still reproduce the trees, and no request of a later compile
\* names the id of a deleted node
C20_DeleteReparentsAndLeavesNoReference ==
    [][/\ ret'.op = "delete" =>
            /\ \A o \in DOMAIN states :
                  /\ o \in DOMAIN states'
                  /\ Reparented(states[o].ntc, states'[o].ntc, ret'.arg)
                  /\ ~RefersTo(states'[o], ret'.arg)
            /\ offsets' = offsets
            /\ TransitionsReproduceTrees([offsets |-> offsets', states |-> states'])
       /\ (ret'.op = "compile" /\ ret'.ok) =>
            \A g \in DeletedNodes :
               /\ g \notin DOMAIN ret'.idmap
               /\ \A b \in DOMAIN ret'.bundles :
                     \A i \in DOMAIN ret'.bundles[b].contents :
                        ~RequestRefersTo(ret'.bundles[b].contents[i], SessionId(g))
      ]_vars

\* a group has just been deleted from a session in which two nodes survive,
\* one inside the other's place, and a State after the group's start holds
\* a move
C20_Witness ==
    /\ ret.op = "delete"
    /\ nodes[ret.arg].kind = "group"
    /\ Cardinality(DOMAIN nodes \ DeletedNodes) = 2
    /\ \E o \in DOMAIN states :
          /\ nodes[ret.arg].start < o
          /\ \E i \in DOMAIN states[o].transitions :
                states[o].transitions[i].source \notin states[o].start_nodes

(***************************************************************************)
(* Recording order of transitions                                          *)
(***************************************************************************)
\* the place of node n among the children of its parent
ChildIndex(ntc, n) == IndexOf(ntc[Parent(ntc, n)], n)

\* the State records at i "A before B" and right after it "C after A", and
\* no later transition of the State places A, B or C again
BeforeThenAfter(state, i) ==
    /\ i \in DOMAIN state.transitions
    /\ i + 1 \in DOMAIN state.transitions
    /\ state.transitions[i].action = "ADD_BEFORE"
    /\ state.transitions[i + 1].action = "ADD_AFTER"
    /\ state.transitions[i + 1].target = state.transitions[i].source
    /\ state.transitions[i + 1].source # state.transitions[i].target
    /\ \A j \in DOMAIN state.transitions :
          j > i + 1 => state.transitions[j].source \notin
                          {state.transitions[i].source, state.transitions[i].target,
                           state.transitions[i + 1].source}

\* C21 as written: the recorded sequence [A before B, C after A] resolves
\* to the sibling order C, A, B
C21_BeforeThenAfterGivesCAB ==
    \A o \in DOMAIN states : \A i \in DOMAIN states[o].transitions :
        BeforeThenAfter(states[o], i) =>
            LET A == states[o].transitions[i].source
                B == states[o].transitions[i].target
                C == states[o].transitions[i + 1].source
                ntc == states[o].ntc
            IN /\ Parent(ntc, A) = Parent(ntc, B)
               /\ Parent(ntc, C) = Parent(ntc, B)
               /\ ChildIndex(ntc, C) < ChildIndex(ntc, A)
               /\ ChildIndex(ntc, A) < ChildIndex(ntc, B)

\* C21, amended: transitions are replayed in recording order, whatever the
\* identities of the nodes: the recorded sequence [A before B, C after A]
\* resolves to the sibling order A, C, B under the parent of B
C21_BeforeThenAfterGivesACB ==
    \A o \in DOMAIN states : \A i \in DOMAIN states[o].transitions :
        BeforeThenAfter(states[o], i) =>
            LET A == states[o].transitions[i].source
                B == states[o].transitions[i].target
                C == states[o].transitions[i + 1].source
                ntc == states[o].ntc
            IN /\ Parent(ntc, A) = Parent(ntc, B)
               /\ Parent(ntc, C) = Parent(ntc, B)
               /\ ChildIndex(ntc, A) < ChildIndex(ntc, C)
               /\ ChildIndex(ntc, C) < ChildIndex(ntc, B)

\* a State records [A before B, C after A] where C is an older node than A,
\* so that recording order and identity order differ
C21_Witness ==
    \E o \in DOMAIN states : \E i \in DOMAIN states[o].transitions :
        /\ BeforeThenAfter(states[o], i)
        /\ states[o].transitions[i + 1].source < states[o].transitions[i].source
        /\ states[o].transitions[i].target \in DOMAIN states[o].ntc

(***************************************************************************)
(* Scenario A                                                              *)
(***************************************************************************)
\* at offset 0 a group, a second group, a synth inside the second group and
\* a third group were created, each at the head of its target and all with
\* the same duration
ScenarioA ==
    /\ Len(nodes) = 4
    /\ [n \in DOMAIN nodes |-> nodes[n].kind] = <<"group", "group", "synth", "group">>
    /\ nodes[3].synthdef \in GatedSynthDefs
    /\ \A n \in DOMAIN nodes : nodes[n].start = 0 /\ nodes[n].stop = CommonStop
    /\ 0 \in DOMAIN states
    /\ states[0].transitions =
          << [source |-> 1, target |-> RootNode, action |-> "ADD_TO_HEAD"],
             [source |-> 2, target |-> RootNode, action |-> "ADD_TO_HEAD"],
             [source |-> 3, target |-> 2, action |-> "ADD_TO_HEAD"],
             [source |-> 4, target |-> RootNode, action |-> "ADD_TO_HEAD"] >>

\* what a request says: its type, the node (or definition) it is about, its
\* target and the ids it lists
Brief(r) ==
    <<r.type, IF r.type = "d_recv" THEN r.synthdef ELSE r.id, r.target, r.ids>>

BriefBundles ==
    [b \in DOMAIN ret.bundles |->
        [timestamp |-> ret.bundles[b].timestamp,
         contents |-> [i \in DOMAIN ret.bundles[b].contents |->
                          Brief(ret.bundles[b].contents[i])]]]

\* C22: the session of scenario A compiles to exactly two bundles: at 0 the
\* definition-receive, group-new 1000, group-new 1001, synth-new 1002 with
\* target 1001 and group-new 1003; at the common stop offset the node-free
\* of 1000, 1001 and 1003, the gate-off of 1002 and the sentinel
C22_ScenarioABundles ==
    (ScenarioA /\ ret.op = "compile") =>
        /\ ret.ok
        /\ BriefBundles =
             << [timestamp |-> 0,
                 contents |-> << <<"d_recv", nodes[3].synthdef, NoNode, <<>> >>,
                                 <<"g_new", 1000, 0, <<>> >>,
                                 <<"g_new", 1001, 0, <<>> >>,
                                 <<"s_new", 1002, 1001, <<>> >>,
                                 <<"g_new", 1003, 0, <<>> >> >>],
                [timestamp |-> CommonStop,
                 contents |-> << <<"n_free", NoNode, NoNode, <<1000, 1001, 1003>> >>,
                                 <<"n_set_gate_0", 1002, NoNode, <<>> >>,
                                 <<"nothing", NoNode, NoNode, <<>> >> >>] >>

\* the session of scenario A has been compiled
C22_Witness == ScenarioA /\ ret.op = "compile" /\ Len(ret.bundles) = 2


(***************************************************************************)
(* Buses.  A bus is a record [rate, group, index]: group is 0 for a bus of *)
(* its own and the ordinal of its BusGroup otherwise, index its position   *)
(* in the group.  The keys of the id mapping are <<"bus", b>> for the b-th *)
(* registered bus, <<"bus_group", g>> for the g-th group, and              *)
(* <<"output", i>>, <<"input", i>>, <<"audio_output_bus_group", 0>>,       *)
(* <<"audio_input_bus_group", 0>> for the hardware buses and their groups. *)
(***************************************************************************)
CalculationRates == {"audio", "control"}

BusGroups(bs) == {bs[b].group : b \in DOMAIN bs} \ {0}

\* len(bus.bus_group)
BusGroupLen(bs, g) == Cardinality({b \in DOMAIN bs : bs[b].group = g})

\* Session.__init__ with ServerOptions of the given channel counts
InitBus ==
    /\ offsets = <<NegInf, 0>>
    /\ states = (NegInf :> [NewState(NegInf) EXCEPT !.ntc = (RootNode :> <<>>)])
                @@ (0 :> [NewState(0) EXCEPT !.ntc = (RootNode :> <<>>)])
    /\ active_moments = <<>>
    /\ nodes = <<>>
    /\ ret = Returned
    /\ synth = NoSynth
    /\ events = [item \in Items |-> <<>>]
    /\ log = <<>>
    /\ buffers = <<>>
    /\ buffer_events = <<>>
    /\ options \in [input_count : 0..MaxHardwareChannels,
                    output_count : 0..MaxHardwareChannels]
    /\ buses = <<>>
    /\ resolver = NoPass

\* the output and input bus groups, mapped before the registered buses
hardware_bus_mapping(opts) ==
    LET output == IF opts.output_count = 0 THEN <<>>
                  ELSE (<<"audio_output_bus_group", 0>> :> 0)
                       @@ [k \in {<<"output", i>> : i \in 0..(opts.output_count - 1)}
                               |-> k[2]]
        input == IF opts.input_count = 0 THEN <<>>
                 ELSE (<<"audio_input_bus_group", 0>> :> opts.output_count)
                      @@ [k \in {<<"input", i>> : i \in 0..(opts.input_count - 1)}
                              |-> opts.output_count + k[2]]
    IN output @@ input

\* BlockAllocator.allocate(n) of an allocator nothing is freed from: the
\* blocks follow each other from heap_minimum
Allocate(allocators, rate, n) ==
    [block_id |-> allocators[rate],
     allocators |-> [allocators EXCEPT ![rate] = @ + n]]

RECURSIVE map_buses_each_member(_, _, _, _)
\* every member of a group is given its own id of the block
map_buses_each_member(bs, b, mapping, allocators) ==
    IF b > Len(bs) THEN mapping
    ELSE LET bus == bs[b]
         IN IF <<"bus", b>> \in DOMAIN mapping
            THEN map_buses_each_member(bs, b + 1, mapping, allocators)
            ELSE IF bus.group = 0
            THEN LET a == Allocate(allocators, bus.rate, 1)
                 IN map_buses_each_member(bs, b + 1,
                                          (<<"bus", b>> :> a.block_id) @@ mapping,
                                          a.allocators)
            ELSE LET len == BusGroupLen(bs, bus.group)
                     a == Allocate(allocators, bus.rate, len)
                     members == {c \in DOMAIN bs : bs[c].group = bus.group}
                 IN map_buses_each_member(
                        bs, b + 1,
                        (<<"bus_group", bus.group>> :> a.block_id)
                            @@ [k \in {<<"bus", c>> : c \in members}
                                    |-> a.block_id + bs[k[2]].index]
                            @@ mapping,
                        a.allocators)

RECURSIVE map_buses(_, _, _, _)
\* the loop over self._buses from the b-th bus on: a bus that is mapped, or
\* whose group is, is skipped; the loop over the ids of a block assigns
\* each of them to the bus at hand, which keeps the last
map_buses(bs, b, mapping, allocators) ==
    IF b > Len(bs) THEN mapping
    ELSE LET bus == bs[b]
         IN IF \/ <<"bus", b>> \in DOMAIN mapping
               \/ (bus.group # 0 /\ <<"bus_group", bus.group>> \in DOMAIN mapping)
            THEN map_buses(bs, b + 1, mapping, allocators)
            ELSE IF bus.group = 0
            THEN LET a == Allocate(allocators, bus.rate, 1)
                 IN map_buses(bs, b + 1, (<<"bus", b>> :> a.block_id) @@ mapping,
                              a.allocators)
            ELSE LET len == BusGroupLen(bs, bus.group)
                     a == Allocate(allocators, bus.rate, len)
                 IN map_buses(bs, b + 1,
                              (<<"bus_group", bus.group>> :> a.block_id)
                                  @@ (<<"bus", b>> :> a.block_id + len - 1)
                                  @@ mapping,
                              a.allocators)

\* _build_id_mapping_for_buses
build_id_mapping_for_buses(opts, bs) ==
    LET first_private_bus_id == opts.input_count + opts.output_count
    IN map_buses(bs, 1, hardware_bus_mapping(opts),
                 [audio |-> first_private_bus_id, control |-> 0])

BusAdds == Cardinality({b \in DOMAIN buses : buses[b].index = 0})

\* session.add_bus(calculation_rate)
AddBus(calculation_rate) ==
    /\ buses' = Append(buses, [rate |-> calculation_rate, group |-> 0, index |-> 0])
    /\ ret' = Returned
    /\ UNCHANGED <<offsets, states, active_moments, nodes, synth_vars, buffers,
                   buffer_events, options, resolver>>

\* session.add_bus_group(bus_count, calculation_rate)
AddBusGroup(bus_count, calculation_rate) ==
    /\ LET g == Cardinality(BusGroups(buses)) + 1
       IN buses' = buses \o [i \in 1..bus_count |->
                                [rate |-> calculation_rate, group |-> g,
                                 index |-> i - 1]]
    /\ ret' = Returned
    /\ UNCHANGED <<offsets, states, active_moments, nodes, synth_vars, buffers,
                   buffer_events, options, resolver>>

\* session._build_id_mapping_for_buses()
BuildIdMappingForBuses ==
    /\ ret.op # "bus_mapping"
    /\ ret' = [Ret("bus_mapping", TRUE, NoDuration)
                  EXCEPT !.idmap = build_id_mapping_for_buses(options, buses)]
    /\ UNCHANGED <<offsets, states, active_moments, nodes, synth_vars, buffers,
                   buffer_events, bus_vars, resolver>>

(***************************************************************************)
(* A session that registers buses and bus groups of both rates and builds  *)
(* the id mapping.                                                         *)
(***************************************************************************)
NextBus ==
    \/ \E rate \in CalculationRates : BusAdds < MaxBusAdds /\ AddBus(rate)
    \/ \E bus_count \in 1..MaxBusCount, rate \in CalculationRates :
          BusAdds < MaxBusAdds /\ AddBusGroup(bus_count, rate)
    \/ BuildIdMappingForBuses

BusSpec == InitBus /\ [][NextBus]_vars

(***************************************************************************)
(* Session._apply_transitions one iteration of its while loop at a time.   *)
(* resolver holds the pass: queue is the PriorityQueue as the sorted       *)
(* sequence of its entries, previous_offset the offset handled last        *)
(* (NoState for None), seeds the offsets the pass was called with, steps   *)
(* what each iteration did.                                                *)
(***************************************************************************)
RECURSIVE QueuePutAll(_, _)
\* queue.put(offset): the entries stay in the order they will be popped in
QueuePut(queue, offset) == InsertAt(queue, bisect_right(queue, offset), offset)

QueuePutAll(queue, seeds) ==
    IF seeds = <<>> THEN queue
    ELSE QueuePutAll(QueuePut(queue, Head(seeds)), Tail(seeds))

\* the state of the pass when the while loop is reached
begin_pass(seeds) ==
    [queue |-> QueuePutAll(<<>>, seeds), previous_offset |-> NoState,
     seeds |-> seeds, steps |-> <<>>]

PassStepResult(S, R, queue, offset, kind, next) ==
    [session |-> S,
     resolver |-> [R EXCEPT !.queue = queue,
                           !.previous_offset = offset,
                           !.steps = Append(@, [offset |-> offset, kind |-> kind,
                                                next |-> next])]]

\* fault variant of the loop body: a change of shape is stored but the
\* State after it is not enqueued
pass_step_unchained(S, R) ==
    LET offset == Head(R.queue)
        rest == Tail(R.queue)
    IN IF offset = R.previous_offset
       THEN PassStepResult(S, R, rest, offset, "repeated", NoState)
       ELSE IF offset \notin DOMAIN S.states
       THEN PassStepResult(S, R, rest, offset, "missing", NoState)
       ELSE LET step == ResolveStep(S, offset)
            IN IF step.session # S
               THEN PassStepResult(step.session, R, rest, offset, "changed", NoState)
               ELSE PassStepResult(S, R, rest, offset, "unchanged", NoState)

\* fault variant of the loop body: after a change of shape the offset at
\* hand is enqueued again
pass_step_requeued(S, R) ==
    LET offset == Head(R.queue)
        rest == Tail(R.queue)
    IN IF offset = R.previous_offset
       THEN PassStepResult(S, R, rest, offset, "repeated", NoState)
       ELSE IF offset \notin DOMAIN S.states
       THEN PassStepResult(S, R, rest, offset, "missing", NoState)
       ELSE LET step == ResolveStep(S, offset)
            IN IF step.session # S
               THEN PassStepResult(step.session, R, QueuePut(rest, offset),
                                   offset, "changed", offset)
               ELSE PassStepResult(S, R, rest, offset, "unchanged", NoState)

\* fault variant of the loop body: an offset popped again right after it
\* was handled is handled again
pass_step_repeating(S, R) ==
    LET offset == Head(R.queue)
        rest == Tail(R.queue)
    IN IF offset \notin DOMAIN S.states
       THEN PassStepResult(S, R, rest, offset, "missing", NoState)
       ELSE LET step == ResolveStep(S, offset)
            IN IF step.session # S
               THEN PassStepResult(step.session, R,
                                   IF step.next = NoState THEN rest
                                   ELSE QueuePut(rest, step.next),
                                   offset, "changed", step.next)
               ELSE PassStepResult(S, R, rest, offset, "unchanged", NoState)

\* one iteration of the while loop: the smallest entry is popped; it is
\* passed over when it equals the offset handled last or has no State;
\* otherwise its State is resolved, and when its shape changed the next
\* State with a tree is enqueued
pass_step(S, R) ==
    LET offset == Head(R.queue)
        rest == Tail(R.queue)
    IN IF offset = R.previous_offset
       THEN PassStepResult(S, R, rest, offset, "repeated", NoState)
       ELSE IF offset \notin DOMAIN S.states
       THEN PassStepResult(S, R, rest, offset, "missing", NoState)
       ELSE LET step == ResolveStep(S, offset)
            IN IF step.session # S
               THEN PassStepResult(step.session, R,
                                   IF step.next = NoState THEN rest
                                   ELSE QueuePut(rest, step.next),
                                   offset, "changed", step.next)
               ELSE PassStepResult(S, R, rest, offset, "unchanged", NoState)

\* what Node.add_group / Node.add_synth do before they call the resolver
record_node(S, n, start, stop, target, action) ==
    LET S1 == [S EXCEPT !.states[start].start_nodes = @ \cup {n}]
        S2 == at_state(S1, stop)
        S3 == [S2 EXCEPT !.states[stop].stop_nodes = @ \cup {n}]
    IN [S3 EXCEPT !.states[start].transitions =
           SetTransition(@, [source |-> n, target |-> target, action |-> action])]

\* what Node.move_node does before it calls the resolver
record_move(S, offset, target, node, action) ==
    [S EXCEPT !.states[offset].transitions =
        SetTransition(@, [source |-> node, target |-> target, action |-> action])]

PassRunning == resolver.queue # <<>>

\* target.add_group(...) / target.add_synth(...) up to the call of
\* session._apply_transitions([start, stop])
RecordNode(target, action, duration, kind, synthdef) ==
    /\ ~PassRunning
    /\ active_moments # <<>>
    /\ target \in DOMAIN states[ActiveOffset].ntc
    /\ action \in ValidAddActions(nodes, target)
    /\ LET n == Len(nodes) + 1
           start == ActiveOffset
           stop == IF duration = Inf THEN Inf ELSE start + duration
           S == record_node(Session, n, start, stop, target, action)
       IN /\ WellFormed(add_node(Session, n, start, stop, target, action))
          /\ offsets' = S.offsets
          /\ states' = S.states
          /\ nodes' = Append(nodes, [kind |-> kind, synthdef |-> synthdef,
                                     start |-> start, stop |-> stop,
                                     deleted |-> FALSE])
          /\ resolver' = begin_pass(<<start, stop>>)
          /\ ret' = Returned
    /\ UNCHANGED <<active_moments, synth_vars, buffers, buffer_events, bus_vars>>

\* target.move_node(node, add_action) up to the call of
\* session._apply_transitions([offset, node.stop_offset])
RecordMove(target, node, action) ==
    /\ ~PassRunning
    /\ active_moments # <<>>
    /\ RecordedMoves(Session) < MaxMoves
    /\ node \in DOMAIN nodes
    /\ node # target
    /\ node \in DOMAIN states[ActiveOffset].ntc
    /\ target \in DOMAIN states[ActiveOffset].ntc
    /\ action \in ValidAddActions(nodes, target)
    /\ LET S == record_move(Session, ActiveOffset, target, node, action)
       IN /\ WellFormed(move_node(Session, nodes, ActiveOffset, target, node, action))
          /\ offsets' = S.offsets
          /\ states' = S.states
          /\ resolver' = begin_pass(<<ActiveOffset, nodes[node].stop>>)
          /\ ret' = Returned
    /\ UNCHANGED <<active_moments, nodes, synth_vars, buffers, buffer_events, bus_vars>>

\* session._apply_transitions(seeds) called on the session as it is, as
\* to_strings does for the offset of every State
BeginPass(seeds) ==
    /\ ~PassRunning
    /\ active_moments = <<>>
    /\ ret.op # "pass"
    /\ resolver' = begin_pass(seeds)
    /\ ret' = Ret("pass", TRUE, NoDuration)
    /\ UNCHANGED <<offsets, states, active_moments, nodes, synth_vars, buffers,
                   buffer_events, bus_vars>>

\* one iteration of the while loop of the pass under way
PassStep ==
    /\ PassRunning
    /\ LET result == pass_step(Session, resolver)
       IN /\ offsets' = result.session.offsets
          /\ states' = result.session.states
          /\ resolver' = result.resolver
    /\ UNCHANGED <<active_moments, nodes, ret, synth_vars, buffers, buffer_events,
                   bus_vars>>

(***************************************************************************)
(* A session built while the resolver is watched: nodes are added and      *)
(* moved in moments that do not nest, every call of the resolver runs      *)
(* iteration by iteration before anything else happens, and the resolver   *)
(* is also called directly with one or more seeds.                         *)
(***************************************************************************)
SeedOffsets == 0..(MaxOffset + MaxDuration)

SeedLists == UNION {[1..k -> SeedOffsets] : k \in 1..MaxSeeds}

NextResolver ==
    \/ \E offset \in 0..MaxOffset :
          /\ ~PassRunning
          /\ active_moments = <<>>
          /\ At(offset)
    \/ ~PassRunning /\ ExitMoment
    \/ \E target \in 0..MaxResolverNodes, action \in AddActions,
          duration \in Durations :
          /\ Len(nodes) < MaxResolverNodes
          /\ RecordNode(target, action, duration, "group", 0)
    \/ \E target \in 0..MaxResolverNodes, action \in AddActions,
          duration \in Durations :
          /\ Len(nodes) < MaxResolverNodes
          /\ RecordNode(target, action, duration, "synth", DefaultSynthDef)
    \/ \E target \in 0..MaxResolverNodes, node \in 1..MaxResolverNodes,
          action \in AddActions :
          RecordMove(target, node, action)
    \/ \E seeds \in SeedLists : BeginPass(seeds)
    \/ PassStep

ResolverSpec == Init /\ [][NextResolver]_vars

\* the loop is not left before the queue is empty: weak fairness of
\* PassStep, written out with PassRunning for ENABLED <<PassStep>>_vars
\* (an iteration always adds to resolver.steps)
PassStepFairness == []<>(~PassRunning) \/ []<><<PassStep>>_vars

ResolverFairSpec == ResolverSpec /\ PassStepFairness

(***************************************************************************)
(* The buffer open-state protocol over the compiled bundles.               *)
(***************************************************************************)
RECURSIVE FlatContents(_)
\* the requests of a bundle sequence, in order
FlatContents(bundles) ==
    IF bundles = <<>> THEN <<>>
    ELSE Head(bundles).contents \o FlatContents(Tail(bundles))

CompiledRequests == IF ret.op = "compile" /\ ret.ok THEN FlatContents(ret.bundles) ELSE <<>>

ReadWriteTypes == {"b_read", "b_readChannel", "b_write"}
BufferLifecycleTypes == {"b_alloc", "b_close", "b_free"} \cup ReadWriteTypes

IsOn(r, types, id) == r.type \in types /\ r.id = id

\* before request k the latest read or write of buffer id left it open and
\* neither a close nor an allocation or free of it followed
OpenBefore(rs, k, id) ==
    \E j \in 1..(k - 1) :
        /\ IsOn(rs[j], ReadWriteTypes, id)
        /\ rs[j].leave_open
        /\ \A m \in (j + 1)..(k - 1) : ~IsOn(rs[m], BufferLifecycleTypes, id)

ClosedJustBefore(rs, k, id) == k > 1 /\ IsOn(rs[k - 1], {"b_close"}, id)

\* C23: over the whole bundle sequence a close of a buffer is emitted only
\* while the buffer is open; a read, read-channels or write of an open
\* buffer is immediately preceded by exactly one close of it and one of a
\* closed buffer by none; a free is preceded by a close exactly when the
\* buffer is open; so no two closes of a buffer occur without a leave-open
\* read or write between them.
C23_BufferOpenStateProtocol ==
    LET rs == CompiledRequests
    IN \A k \in DOMAIN rs :
           /\ rs[k].type = "b_close" =>
                  /\ OpenBefore(rs, k, rs[k].id)
                  /\ k < Len(rs)
                  /\ IsOn(rs[k + 1], ReadWriteTypes \cup {"b_free"}, rs[k].id)
           /\ rs[k].type \in ReadWriteTypes \cup {"b_free"} =>
                  IF ClosedJustBefore(rs, k, rs[k].id)
                  THEN /\ OpenBefore(rs, k - 1, rs[k].id)
                       /\ ~ClosedJustBefore(rs, k - 1, rs[k].id)
                  ELSE ~OpenBefore(rs, k, rs[k].id)

\* a render in which a read of an open buffer and a free of an open buffer
\* are each preceded by a close, and a write of a closed buffer by none
C23_Witness ==
    LET rs == CompiledRequests
    IN /\ \E k \in DOMAIN rs :
              /\ rs[k].type \in {"b_read", "b_readChannel"}
              /\ ClosedJustBefore(rs, k, rs[k].id)
       /\ \E k \in DOMAIN rs :
              rs[k].type = "b_free" /\ ClosedJustBefore(rs, k, rs[k].id)
       /\ \E k \in DOMAIN rs :
              /\ rs[k].type = "b_write"
              /\ ~ClosedJustBefore(rs, k, rs[k].id)

(***************************************************************************)
(* Node ids.                                                               *)
(***************************************************************************)
CreatedBefore(n) == {m \in DOMAIN nodes : m < n}

\* C24: in the id mapping of a render the root node maps to 0 and every
\* other node to 1000 plus the number of nodes created before it, whatever
\* offsets the nodes were created at; the mapping is injective.
C24_NodeIdsAreSequenceIds ==
    Compiled =>
        /\ ret.idmap[RootNode] = 0
        /\ \A n \in DOMAIN nodes :
               /\ n \in DOMAIN ret.idmap
               /\ ret.idmap[n] = 1000 + Cardinality(CreatedBefore(n))
        /\ \A m, n \in DOMAIN ret.idmap : ret.idmap[m] = ret.idmap[n] => m = n

\* a render of a session whose first node starts after its second node
C24_Witness ==
    /\ Compiled
    /\ Len(nodes) = 2
    /\ nodes[2].start < nodes[1].start
    /\ ret.idmap[1] = 1000
    /\ ret.idmap[2] = 1001

(***************************************************************************)
(* Bus ids.                                                                *)
(***************************************************************************)
BusesMapped == ret.op = "bus_mapping"

FirstPrivateBusId == options.input_count + options.output_count

\* the ids a registered bus or a hardware bus is mapped to
BusKeys(mapping) == {k \in DOMAIN mapping : k[1] \in {"bus", "input", "output"}}

\* C25: hardware buses occupy [0, input_count + output_count); every other
\* bus registered in the session is present in the id mapping; the members
\* of a bus group map to the block base plus their index; buses of the same
\* calculation rate never share an id; no private audio bus id is below
\* input_count + output_count.
C25_BusIds ==
    BusesMapped =>
        LET mapping == ret.idmap
        IN /\ \A i \in 0..(options.output_count - 1) :
                  mapping[<<"output", i>>] \in 0..(FirstPrivateBusId - 1)
           /\ \A i \in 0..(options.input_count - 1) :
                  mapping[<<"input", i>>] \in 0..(FirstPrivateBusId - 1)
           /\ \A j, k \in {h \in DOMAIN mapping : h[1] \in {"input", "output"}} :
                  mapping[j] = mapping[k] => j = k
           /\ \A b \in DOMAIN buses :
                  /\ <<"bus", b>> \in DOMAIN mapping
                  /\ buses[b].group # 0 =>
                         /\ <<"bus_group", buses[b].group>> \in DOMAIN mapping
                         /\ mapping[<<"bus", b>>] =
                                mapping[<<"bus_group", buses[b].group>>] + buses[b].index
                  /\ buses[b].rate = "audio" => mapping[<<"bus", b>>] >= FirstPrivateBusId
           /\ \A b, c \in DOMAIN buses :
                  (buses[b].rate = buses[c].rate
                       /\ mapping[<<"bus", b>>] = mapping[<<"bus", c>>]) => b = c

(***************************************************************************)
(* Session.at on an old and on a new offset.                               *)
(***************************************************************************)
\* the offset list with t spliced in right after its predecessor, the last
\* offset below t
SplicedAfterPredecessor(offs, t) ==
    LET i == CHOOSE j \in DOMAIN offs :
                 offs[j] < t /\ (j = Len(offs) \/ t < offs[j + 1])
    IN SubSeq(offs, 1, i) \o <<t>> \o SubSeq(offs, i + 1, Len(offs))

\* this step is a successful session.at(t)
EntersMomentAt(t) ==
    /\ active_moments' = Append(active_moments, t)
    /\ ret'.op = "at"
    /\ ret'.ok

\* C26: at(t) on an offset that has a State enters a moment on that State
\* and adds nothing, so any number of calls of at(t) leave the offset list
\* and the State mapping as one call does; at(t) on a new offset adds
\* exactly one State and splices t in right after its predecessor.
C26_AtReusesOrAddsOneState ==
    [][\A t \in 0..(MaxOffset + MaxDuration) :
           EntersMomentAt(t) =>
               /\ t \in DOMAIN states =>
                      /\ offsets' = offsets
                      /\ states' = states
               /\ t \notin DOMAIN states =>
                      /\ DOMAIN states' = DOMAIN states \cup {t}
                      /\ \A o \in DOMAIN states : states'[o] = states[o]
                      /\ offsets' = SplicedAfterPredecessor(offsets, t)
               /\ states'[t].offset = t
               /\ at_state([offsets |-> offsets', states |-> states'], t)
                      = [offsets |-> offsets', states |-> states']]_vars

\* a moment at offset 1 entered inside a moment at offset 1, in a session
\* that has no other offset but 0
C26_Witness ==
    /\ active_moments = <<1, 1>>
    /\ offsets = <<NegInf, 0, 1>>
    /\ ret.op = "at"
    /\ ret.ok

(***************************************************************************)
(* The resolver pass, iteration by iteration.                              *)
(***************************************************************************)
MaxOf(S) == CHOOSE x \in S : \A y \in S : y <= x

TreeOffsetsBefore(offset) == {o \in DOMAIN states : o < offset /\ HasNodeTree(states[o])}

TreeOffsetsAfter(offset) == {o \in DOMAIN states : offset < o /\ HasNodeTree(states[o])}

\* the tree of the State at offset as its own transitions and stop nodes
\* give it from the tree of the nearest State with a tree before it
Replayed(offset) ==
    StateApplyTransitions(states[offset].transitions,
                          states[MaxOf(TreeOffsetsBefore(offset))].ntc,
                          states[offset].stop_nodes)

\* the entries of the queue, with their multiplicities
QueueBag(queue) == [o \in SeqToSet(queue) |-> Cardinality({i \in DOMAIN queue : queue[i] = o})]

\* this step is an iteration of the pass that resolves the State at the
\* popped offset
Resolves(offset) ==
    /\ PassRunning
    /\ resolver' # resolver
    /\ offset = Head(resolver.queue)
    /\ offset # resolver.previous_offset
    /\ offset \in DOMAIN states

NothingStored == offsets' = offsets /\ states' = states

StoredAt(offset) ==
    /\ offsets' = offsets
    /\ states' = [states EXCEPT ![offset].ntc = Replayed(offset)]

EarliestSeed == MinOf(SeqToSet(resolver.seeds))

\* C27: an iteration that changes the shape of a State stores the new
\* shape and enqueues the next State with a tree after that offset; one
\* that leaves the shape as it is stores nothing and enqueues nothing; and
\* once the queue is empty every State with a tree at or after the
\* earliest seed has the tree its own transitions give it from the tree of
\* the nearest State with a tree before it.
C27_ResolverFixpoint ==
    /\ [][\A offset \in DOMAIN states :
              Resolves(offset) =>
                  IF Replayed(offset) # states[offset].ntc
                  THEN /\ StoredAt(offset)
                       /\ QueueBag(resolver'.queue) =
                              QueueBag(Tail(resolver.queue)
                                  \o (IF TreeOffsetsAfter(offset) = {} THEN <<>>
                                      ELSE <<MinOf(TreeOffsetsAfter(offset))>>))
                  ELSE /\ NothingStored
                       /\ resolver'.queue = Tail(resolver.queue)]_vars
    /\ [](~PassRunning /\ resolver.seeds # <<>> =>
              \A o \in DOMAIN states :
                  (HasNodeTree(states[o]) /\ EarliestSeed <= o /\ NegInf < o) =>
                      states[o].ntc = Replayed(o))

\* a finished pass of a session of two nodes in which one iteration
\* changed a shape and enqueued the State after it and another left the
\* shape it found
C27_Witness ==
    /\ ~PassRunning
    /\ Len(nodes) = 2
    /\ \E i \in DOMAIN resolver.steps :
           resolver.steps[i].kind = "changed" /\ resolver.steps[i].next # NoState
    /\ \E i \in DOMAIN resolver.steps : resolver.steps[i].kind = "unchanged"

QueueCount(queue, o) == Cardinality({i \in DOMAIN queue : queue[i] = o})

\* this step is an iteration of the pass
PassIterates == PassRunning /\ resolver' # resolver

\* C28: the resolver terminates: every offset an iteration enqueues is
\* strictly later than the offset it popped, and a pass under way reaches
\* an empty queue.
C28_ResolverTerminates ==
    /\ [][PassIterates =>
              \A o \in SeqToSet(resolver'.queue) :
                  QueueCount(resolver'.queue, o) > QueueCount(Tail(resolver.queue), o)
                      => Head(resolver.queue) < o]_vars
    /\ (PassRunning ~> ~PassRunning)

\* a pass that took four iterations or more, one of which enqueued a later
\* offset, and has emptied its queue
C28_Witness ==
    /\ ~PassRunning
    /\ Len(resolver.steps) >= 4
    /\ \E i \in DOMAIN resolver.steps :
           /\ resolver.steps[i].next # NoState
           /\ resolver.steps[i].offset < resolver.steps[i].next

\* the iterations that got as far as resolving a State
ResolvingKinds == {"changed", "unchanged"}

\* C29: within one pass the offsets are handled in increasing order and the
\* State of an offset is resolved at most once, also when the offset is
\* seeded several times or is both seeded and enqueued by chaining; a
\* seeded offset that has no State is passed over and no State is made for
\* it.
C29_EachOffsetResolvedOnceInOrder ==
    [][PassIterates =>
          LET steps == resolver'.steps
              last == steps[Len(steps)]
          IN /\ last.offset = Head(resolver.queue)
             /\ offsets' = offsets
             /\ DOMAIN states' = DOMAIN states
             /\ \A i \in 1..(Len(steps) - 1) :
                    /\ steps[i].offset <= last.offset
                    /\ (steps[i].kind \in ResolvingKinds /\ last.kind \in ResolvingKinds)
                           => steps[i].offset < last.offset
             /\ last.offset \notin DOMAIN states =>
                    /\ states' = states
                    /\ last.kind \notin ResolvingKinds]_vars

\* a finished pass in which an offset that was seeded and then enqueued by
\* chaining as well was popped a second time and passed over
C29_Witness ==
    /\ ~PassRunning
    /\ \E i, j \in DOMAIN resolver.steps :
           /\ i < j
           /\ resolver.steps[i].next = resolver.steps[j].offset
           /\ resolver.steps[j].kind = "repeated"
           /\ \E k \in DOMAIN resolver.seeds :
                  resolver.seeds[k] = resolver.steps[j].offset

(***************************************************************************)
(* The nodes of a resolved tree and the nodes alive at its offset.         *)
(***************************************************************************)
AliveAt(n, t) == nodes[n].start <= t /\ t < nodes[n].stop /\ ~nodes[n].deleted

InTreeAt(n, t) == n \in DOMAIN states[t].ntc

ResolvedOffsets == {t \in DOMAIN states : NegInf < t /\ HasNodeTree(states[t])}

\* when the group g stops, n sits below it in the tree its State replays
FreedWith(n, g) ==
    LET t == nodes[g].stop
    IN /\ n # g
       /\ t \in DOMAIN states
       /\ n \in Subtree(ReplayTransitions(states[t].transitions,
                                          states[MaxOf(TreeOffsetsBefore(t))].ntc), g)

AllBounded == \A n \in DOMAIN nodes : nodes[n].stop < Inf

LastFiniteOffset == MaxOf({t \in DOMAIN states : t < Inf})

\* C30 as stated: a node is in the tree of a resolved State exactly when it
\* is alive at the State's offset
C30_TreeHoldsExactlyTheAliveNodes ==
    \A t \in ResolvedOffsets, n \in DOMAIN nodes : InTreeAt(n, t) <=> AliveAt(n, t)

\* C30: every node in the tree of a resolved State is alive at the State's
\* offset, so the tree at a node's stop offset no longer contains it and
\* the tree at the last finite offset holds only the root when all nodes
\* are bounded; a node alive at the offset is in the tree unless a group
\* that stopped at or before the offset had it below it when it stopped.
C30_TreeHoldsAliveNodesNotFreedWithAGroup ==
    /\ \A t \in ResolvedOffsets, n \in DOMAIN nodes :
           /\ InTreeAt(n, t) => AliveAt(n, t)
           /\ (AliveAt(n, t) /\ ~InTreeAt(n, t)) =>
                  \E g \in DOMAIN nodes :
                      /\ nodes[g].kind = "group"
                      /\ nodes[g].stop <= t
                      /\ FreedWith(n, g)
           /\ nodes[n].stop \in ResolvedOffsets => ~InTreeAt(n, nodes[n].stop)
    /\ AllBounded => DOMAIN states[LastFiniteOffset].ntc = {RootNode}

\* a synth placed in a group that stops at offset 1 while the synth goes
\* on: the tree at 1 holds neither
C30_Witness ==
    /\ active_moments = <<>>
    /\ Len(nodes) = 2
    /\ nodes[1].kind = "group"
    /\ nodes[1].stop = 1
    /\ AliveAt(2, 1)
    /\ FreedWith(2, 1)
    /\ ~InTreeAt(2, 1)
    /\ InTreeAt(2, 0)

(***************************************************************************)
(* C38: a compile and the timeline.                                        *)
(***************************************************************************)
\* the step is a call of _to_non_xrefd_request_bundles
CompileStep == ret'.op = "compile" /\ ret'.nth = ret.nth + 1

\* C38: compiling is read-only with respect to the timeline: a compile,
\* with or without a duration argument, leaves the offset list, the State
\* mapping and Session.duration as they were, so a compile without a
\* duration that follows renders up to the same final offset.
C38_CompileLeavesTimelineUnchanged ==
    [][CompileStep =>
          /\ offsets' = offsets
          /\ states' = states
          /\ session_duration(offsets') = session_duration(offsets)]_vars

(***************************************************************************)
(* Session._remove_state_at, and sessions in which States are looked up,   *)
(* added and removed: groups are placed in moments, the session is         *)
(* compiled, and between moments States are removed again.                 *)
(***************************************************************************)
\* State.is_sparse: the State holds nothing but the tree it was cloned
\* with
is_sparse(state) == state = Clone(state, state.offset)

\* fault variant of _remove_state_at: the offset leaves the list, the State
\* stays in the mapping
remove_state_at_keeps_state(S, offset) ==
    IF offset \notin DOMAIN S.states
    THEN [ok |-> TRUE, session |-> S, removed |-> FALSE]
    ELSE IF ~is_sparse(S.states[offset])
    THEN [ok |-> FALSE, session |-> S, removed |-> FALSE]
    ELSE [ok |-> TRUE,
          session |-> [S EXCEPT !.offsets = RemoveFirst(S.offsets, offset)],
          removed |-> TRUE]

\* _remove_state_at(offset): ok is FALSE when the assertion fails
remove_state_at(S, offset) ==
    IF offset \notin DOMAIN S.states
    THEN [ok |-> TRUE, session |-> S, removed |-> FALSE]
    ELSE IF ~is_sparse(S.states[offset])
    THEN [ok |-> FALSE, session |-> S, removed |-> FALSE]
    ELSE [ok |-> TRUE,
          session |-> [offsets |-> RemoveFirst(S.offsets, offset),
                       states |-> [o \in DOMAIN S.states \ {offset} |-> S.states[o]]],
          removed |-> TRUE]

\* session._remove_state_at(offset), called while no moment refers to a
\* State
RemoveStateAt(offset) ==
    /\ active_moments = <<>>
    /\ LET result == remove_state_at(Session, offset)
       IN /\ offsets' = result.session.offsets
          /\ states' = result.session.states
          /\ ret' = [Ret("remove", result.ok, offset) EXCEPT
                        !.item = IF result.removed THEN "removed" ELSE ""]
    /\ UNCHANGED <<active_moments, nodes, synth_vars, buffers, buffer_events, bus_vars, resolver>>

\* the offsets a State is removed at: the finite offsets of the model
RemoveOffsets == 0..(MaxOffset + MaxDuration)

NextTimeline ==
    \/ \E offset \in AtOffsets : At(offset)
    \/ ExitMoment
    \/ \E target \in 0..MaxNodes, action \in AddActions, duration \in Durations :
          Len(nodes) < MaxNodes /\ AddGroup(target, action, duration)
    \/ \E duration \in CompileDurations : Compile(duration)
    \/ \E offset \in RemoveOffsets : RemoveStateAt(offset)

TimelineSpec == Init /\ [][NextTimeline]_vars

(***************************************************************************)
(* C39: the offset list and the State mapping.                             *)
(***************************************************************************)
\* an offset is in the list, once, iff the mapping has a State for it, and
\* that State's own offset is its key
OffsetsMatchStates(offs, sts) ==
    /\ SeqToSet(offs) = DOMAIN sts
    /\ Cardinality(DOMAIN sts) = Len(offs)
    /\ \A o \in DOMAIN sts : sts[o].offset = o

\* the step is a call of _remove_state_at
RemoveStep == ret'.op = "remove" /\ ret' # ret

\* C39: after every operation (at, _add_state_at, _find_state_at with
\* clone_if_missing, _remove_state_at) the offset list and the State
\* mapping are in bijection and every State's own offset is its key;
\* _remove_state_at takes out the offset and the State of a sparse State
\* only and changes nothing for an offset without a State.
C39_OffsetsAndStatesInBijection ==
    /\ []OffsetsMatchStates(offsets, states)
    /\ [][RemoveStep =>
             LET o == ret'.arg
             IN IF o \in DOMAIN states /\ is_sparse(states[o])
                THEN /\ ret'.ok
                     /\ offsets' = RemoveFirst(offsets, o)
                     /\ DOMAIN states' = DOMAIN states \ {o}
                     /\ \A p \in DOMAIN states' : states'[p] = states[p]
                ELSE /\ offsets' = offsets
                     /\ states' = states
                     /\ ret'.ok = (o \notin DOMAIN states)]_vars

\* the State a moment added between the start and the stop of a group has
\* been removed again
C39_Witness ==
    /\ ret.op = "remove"
    /\ ret.item = "removed"
    /\ ret.arg = 1
    /\ Len(nodes) = 1
    /\ nodes[1].start = 0
    /\ nodes[1].stop = Inf
    /\ offsets = <<NegInf, 0, Inf>>

(***************************************************************************)
(* Session.rebuild_transitions called on its own: the sessions of          *)
(* test_Node_delete.py, with the transitions rebuilt between moments as    *)
(* well as by a delete.                                                    *)
(***************************************************************************)
\* session.rebuild_transitions(), called outside any moment
RebuildTransitions ==
    /\ active_moments = <<>>
    /\ LET S == rebuild_transitions(Session)
       IN /\ offsets' = S.offsets
          /\ states' = S.states
          /\ ret' = Ret("rebuild", TRUE, NoDuration)
    /\ UNCHANGED <<active_moments, nodes, synth_vars, buffers, buffer_events, bus_vars, resolver>>

NextRebuild ==
    \/ \E offset \in 0..MaxOffset :
          /\ active_moments = <<>>
          /\ ret.op # "rebuild"
          /\ \A n \in DOMAIN nodes : nodes[n].start <= offset
          /\ At(offset)
    \/ ExitMoment
    \/ \E target \in 0..MaxTreeNodes, action \in AddActions :
          /\ Len(nodes) < MaxTreeNodes
          /\ active_moments # <<>>
          /\ AddGroup(target, action, CommonStop - ActiveOffset)
    \/ \E target \in 0..MaxTreeNodes, action \in AddActions :
          /\ Len(nodes) < MaxTreeNodes
          /\ active_moments # <<>>
          /\ AddSynth(target, action, CommonStop - ActiveOffset, DefaultSynthDef)
    \/ \E target \in 0..MaxTreeNodes, node \in 1..MaxTreeNodes, action \in AddActions :
          MoveNode(target, node, action)
    \/ RebuildTransitions

RebuildSpec == Init /\ [][NextRebuild]_vars

(***************************************************************************)
(* C40: rebuild_transitions round trip.                                    *)
(***************************************************************************)
\* the trees of the States, by offset
Trees(sts) == [o \in DOMAIN sts |-> sts[o].ntc]

\* the transitions of some State are not the ones a rebuild gives
NotYetRebuilt(S) == rebuild_transitions(S) # S

\* C40: after rebuild_transitions, replaying the rebuilt transitions of
\* each resolved State against the tree of the resolved State before it
\* gives the tree the State holds; the rebuild changes no tree and no
\* offset, and a second rebuild_transitions changes nothing.
C40_RebuildTransitionsRoundTrip ==
    [][ret'.op = "rebuild" =>
          LET rebuilt == [offsets |-> offsets', states |-> states']
          IN /\ TransitionsReproduceTrees(rebuilt)
             /\ offsets' = offsets
             /\ Trees(states') = Trees(states)
             /\ rebuild_transitions(rebuilt) = rebuilt]_vars

\* a rebuild has replaced the recorded transitions of a session that holds
\* a move and three nodes
C40_Witness ==
    /\ ret.op = "rebuild"
    /\ Len(nodes) = 3
    /\ NotYetRebuilt(Session) = FALSE
    /\ \E o \in DOMAIN states :
          \E i \in DOMAIN states[o].transitions :
              states[o].transitions[i].source \notin states[o].start_nodes

(***************************************************************************)
(* C36: what a compile creates it releases.                                *)
(***************************************************************************)
\* how many requests of the bundle release the node id
Releases(bundle, id) == GateOffs(bundle, id) + FreesOf(bundle, id)

\* the ids of the requests of the given types in a bundle
IdsOfTypes(bundle, types) ==
    {bundle.contents[i].id :
        i \in {j \in DOMAIN bundle.contents : bundle.contents[j].type \in types}}

\* every id the requests of the types created bring in is taken out by a
\* request of the types released in the same or a later bundle
ReleasedLater(bundles, created, released(_, _)) ==
    \A b \in DOMAIN bundles :
        \A id \in IdsOfTypes(bundles[b], created) :
            \E c \in b..Len(bundles) : released(bundles[c], id)

NodeReleased(bundle, id) == Releases(bundle, id) > 0

BufferFreed(bundle, id) == id \in IdsOfTypes(bundle, {"b_free"})

FinalBundle == ret.bundles[Len(ret.bundles)]

\* the object's interval holds the render duration, its start included
AliveAtDuration(object) ==
    object.start <= ret.duration /\ ret.duration < object.stop

\* C36: everything is released by the end of a compile: every node-new
\* request is followed, in the same or a later bundle, by a free or a
\* gate-off for its id, every buffer-allocate by a buffer-free for its id,
\* and the objects still alive at the render duration, those starting
\* exactly at it included, are released in the final bundle, before the
\* sentinel.
C36_EverythingReleased ==
    Compiled =>
        /\ ReleasedLater(ret.bundles, {"s_new", "g_new"}, NodeReleased)
        /\ ReleasedLater(ret.bundles, {"b_alloc"}, BufferFreed)
        /\ FinalBundle.contents[Len(FinalBundle.contents)] = NothingRequest
        /\ \A n \in DOMAIN nodes :
              (~nodes[n].deleted /\ AliveAtDuration(nodes[n])) =>
                  NodeReleased(FinalBundle, SessionId(n))
        /\ \A b \in DOMAIN buffers :
              AliveAtDuration(buffers[b]) => BufferFreed(FinalBundle, BufferId(b))

(***************************************************************************)
(* Synths created with keyword values: Synth(session, start_offset,        *)
(* stop_offset, synthdef, **synth_kwargs), then written and read inside    *)
(* moments.                                                                *)
(***************************************************************************)
\* the keyword values given at creation: none, or one for "amplitude"
CreationKwargs ==
    {NoKwargs, [item \in Items |-> IF item = "amplitude" THEN 2 ELSE NoValue]}

SynthsCreated ==
    {[start |-> timespan[1], stop |-> timespan[2], synth_kwargs |-> kwargs] :
        timespan \in {<<0, 1>>, <<1, Inf>>}, kwargs \in CreationKwargs}

InitSynthCreated ==
    /\ offsets = <<NegInf, 0>>
    /\ states = (NegInf :> [NewState(NegInf) EXCEPT !.ntc = (RootNode :> <<>>)])
                @@ (0 :> [NewState(0) EXCEPT !.ntc = (RootNode :> <<>>)])
    /\ active_moments = <<>>
    /\ nodes = <<>>
    /\ ret = Returned
    /\ synth \in SynthsCreated
    /\ events = [item \in Items |-> <<>>]
    /\ log = <<>>
    /\ buffers = <<>>
    /\ buffer_events = <<>>
    /\ options = NoHardwareBuses
    /\ buses = <<>>
    /\ resolver = NoPass

NextSynthRead ==
    \/ \E offset \in SynthOffsets : At(offset)
    \/ ExitMoment
    \/ \E item \in Items, value \in Values : SetItem(item, value)
    \/ \E item \in Items : GetItem(item)

SynthReadSpec == InitSynthCreated /\ [][NextSynthRead]_vars

(***************************************************************************)
(* C35: reads before the first breakpoint.                                 *)
(***************************************************************************)
\* the item has no breakpoint at or before relative time t
BeforeFirstBreakpoint(item, t) ==
    \A i \in DOMAIN events[item] : t < events[item][i][1]

\* C35: a read of a parameter at a time earlier than its first breakpoint,
\* or of a parameter without breakpoints, returns the creation-time value:
\* the keyword value given when the synth was created if there is one,
\* otherwise the default the definition declares.
C35_ReadBeforeFirstBreakpoint ==
    (ret.op = "getitem" /\ ret.ok /\ BeforeFirstBreakpoint(ret.item, RelativeTimestep))
        => ret.arg = IF synth.synth_kwargs[ret.item] # NoValue
                     THEN synth.synth_kwargs[ret.item]
                     ELSE DefaultValue

\* a read ahead of the first breakpoint of a parameter that was given a
\* keyword value at creation
C35_Witness ==
    /\ ret.op = "getitem"
    /\ ret.ok
    /\ events[ret.item] # <<>>
    /\ BeforeFirstBreakpoint(ret.item, RelativeTimestep)
    /\ synth.synth_kwargs[ret.item] = 2
    /\ ret.arg = 2

(***************************************************************************)
(* C34: the order of the buffer post-allocation requests of a bundle.      *)
(***************************************************************************)
\* the place of a request type in _ordered_buffer_post_alloc_request_types,
\* for the types of this model
PostAllocRank(type) ==
    CASE type = "b_read" -> 1
      [] type = "b_readChannel" -> 2
      [] type = "b_zero" -> 3

\* the post-allocation operations of a bundle, in their order, without the
\* closes put in ahead of a read
PostAllocOperations(bundle) ==
    SelectSeq(OfCategory(bundle, CatBufferPostAlloc), LAMBDA r : r.type # "b_close")

\* the requests come type by type in the order of rank and by buffer id
\* within a type
GroupedByType(requests, rank(_)) ==
    \A i \in DOMAIN requests : \A j \in DOMAIN requests :
        i < j =>
            \/ rank(requests[i].type) < rank(requests[j].type)
            \/ /\ rank(requests[i].type) = rank(requests[j].type)
               /\ requests[i].id <= requests[j].id

\* C34: the buffer post-allocation operations pending at one offset are
\* emitted grouped by type in the fixed order read, read-channels, zero,
\* fill, generate, set, set-contiguous, normalize, copy, whatever order
\* they were recorded in, and by buffer id within one type.
C34_PostAllocGroupedByType ==
    Compiled =>
        \A b \in DOMAIN ret.bundles :
            GroupedByType(PostAllocOperations(ret.bundles[b]), PostAllocRank)


(***************************************************************************)
(* Parameter settings and bus values in the request compiler.  A node of   *)
(* such a session carries, besides the fields above, the keyword arguments *)
(* it was created with (synth_kwargs) and its breakpoints (events, a       *)
(* function from <<key, time relative to the start>> to the value: the     *)
(* sorted list with one breakpoint per time); a bus carries its            *)
(* breakpoints (events, a function from the offset to the value).  A       *)
(* value is a tagged pair: a number, a bus of the session, or None.        *)
(***************************************************************************)
Number(v) == <<"value", v>>
BusValue(b) == <<"bus", b>>
None == <<"none", 0>>

\* synthdef.parameter_names of the two SynthDefs: the gated one is the
\* default definition, the other one declares a duration
parameter_names(synthdef) ==
    IF synthdef \in GatedSynthDefs THEN {"frequency", "gate"}
    ELSE {"duration", "frequency"}

\* synthdef.parameters[key].parameter_rate
parameter_rate(synthdef, key) ==
    IF key = "duration" THEN "scalar" ELSE "control"

\* the point write of section 4.6 on a function of breakpoints
write_breakpoint(evs, time, value) == (time :> value) @@ evs

\* Node.__setitem__ at offset: a write outside [0, duration] is ignored
set_at_offset(node, offset, key, value) ==
    LET timestep == offset - node.start
    IN IF timestep < 0 \/ node.stop < offset THEN node
       ELSE [node EXCEPT !.events = write_breakpoint(@, <<key, timestep>>, value)]

\* Node._collect_settings(offset, persistent=False): the values written at
\* exactly this offset, by key
collect_settings(node, offset) ==
    LET timestep == offset - node.start
        keys == {e[1] : e \in {d \in DOMAIN node.events : d[2] = timestep}}
    IN [key \in keys |-> node.events[<<key, timestep>>]]

ControlBusSetRequest(index_value_pairs) ==
    [index_value_pairs |-> index_value_pairs]
        @@ Request(CatBusSet, "c_set", NoNode, NoNode, "", <<>>)

\* NodeSetRequest, NodeMapToAudioBusRequest, NodeMapToControlBusRequest
NodeSettingsRequest(type, node_id, settings) ==
    [settings |-> settings]
        @@ Request(CatNodeSet, type, node_id, NoNode, "", <<>>)

\* Synth._to_request(action, id_mapping, **synth_kwargs)
SynthNewRequest(ns, source, tr, id_mapping, synth_kwargs) ==
    [kwargs |-> synth_kwargs] @@ NodeNewRequest(ns, source, tr, id_mapping)

\* fault variant of _collect_bus_settings: the buses of every rate are
\* collected
collect_bus_settings_every_rate(bs, bus_mapping) ==
    LET control == DOMAIN bs
        raised == \E b \in control : <<"bus", b>> \notin DOMAIN bus_mapping
        written == UNION {DOMAIN bs[b].events : b \in control}
        at(offset) == {b \in control : offset \in DOMAIN bs[b].events}
    IN [raised |-> raised,
        settings |->
            IF raised THEN <<>>
            ELSE [offset \in written |->
                     [bus_id \in {bus_mapping[<<"bus", b>>] : b \in at(offset)} |->
                         bs[MaxOf({b \in at(offset) :
                                      bus_mapping[<<"bus", b>>] = bus_id})].events[offset]]]]

\* _collect_bus_settings: offset -> (bus_id -> value) over the control-rate
\* buses in registration order, a later bus of the same id overwriting an
\* earlier one; raised stands for the KeyError of id_mapping[bus]
collect_bus_settings(bs, bus_mapping) ==
    LET control == {b \in DOMAIN bs : bs[b].rate = "control"}
        raised == \E b \in control : <<"bus", b>> \notin DOMAIN bus_mapping
        written == UNION {DOMAIN bs[b].events : b \in control}
        at(offset) == {b \in control : offset \in DOMAIN bs[b].events}
    IN [raised |-> raised,
        settings |->
            IF raised THEN <<>>
            ELSE [offset \in written |->
                     [bus_id \in {bus_mapping[<<"bus", b>>] : b \in at(offset)} |->
                         bs[MaxOf({b \in at(offset) :
                                      bus_mapping[<<"bus", b>>] = bus_id})].events[offset]]]]

\* _collect_bus_set_requests: sorted(bus_settings[offset].items())
collect_bus_set_requests(bus_settings, offset) ==
    IF offset \notin DOMAIN bus_settings THEN <<>>
    ELSE LET bus_ids == SortSet(DOMAIN bus_settings[offset])
         IN <<ControlBusSetRequest(
                 [i \in DOMAIN bus_ids |->
                     <<bus_ids[i], bus_settings[offset][bus_ids[i]]>>])>>

RECURSIVE iterate_nodes(_, _)
\* State._iterate_nodes: depth-first, a node ahead of its children
iterate_nodes(ntc, queue) ==
    IF queue = <<>> THEN <<>>
    ELSE <<Head(queue)>> \o iterate_nodes(ntc, ntc[Head(queue)] \o Tail(queue))

\* _collect_node_settings: the ordered mapping node -> settings, as a
\* sequence of records in key order
collect_node_settings(S, ns, offset) ==
    LET state == S.states[offset]
        tree == IF state.ntc = NoTree
                THEN S.states[find_state_before(S.offsets, S.states, offset, TRUE)].ntc
                ELSE state.ntc
        visited == SelectSeq(iterate_nodes(tree, <<RootNode>>),
                       LAMBDA n : n # RootNode /\ collect_settings(ns[n], offset) # <<>>)
    IN [i \in DOMAIN visited |->
           [node |-> visited[i], settings |-> collect_settings(ns[visited[i]], offset)]]

\* node_settings[source], the empty mapping when source is not a key
SettingsOf(node_settings, source) ==
    LET at == {i \in DOMAIN node_settings : node_settings[i].node = source}
    IN IF at = {} THEN <<>> ELSE node_settings[CHOOSE i \in at : TRUE].settings

\* fault variant of the keyword arguments of a synth-new request: the
\* duration is the synth's own, the render duration is not looked at
synth_new_kwargs_unclamped(ns, duration, source, node_settings) ==
    LET node == ns[source]
        updated == SettingsOf(node_settings, source) @@ node.synth_kwargs
        node_duration == IF node.stop = Inf THEN Inf ELSE node.stop - node.start
    IN IF "duration" \in parameter_names(node.synthdef)
       THEN ("duration" :> Number(node_duration)) @@ updated
       ELSE updated

\* the keyword arguments of a synth-new request: source.synth_kwargs,
\* updated with the settings at the offset, with the duration put in
synth_new_kwargs(ns, duration, source, node_settings) ==
    LET node == ns[source]
        updated == SettingsOf(node_settings, source) @@ node.synth_kwargs
        node_duration == IF duration < node.stop THEN duration - node.start
                         ELSE IF node.stop = Inf THEN Inf
                         ELSE node.stop - node.start
    IN IF "duration" \in parameter_names(node.synthdef)
       THEN ("duration" :> Number(node_duration)) @@ updated
       ELSE updated

\* fault variant of the pop of _collect_node_action_requests: the settings
\* folded into a synth-new request stay in node_settings
popped_node_settings_kept(ns, node_actions, node_settings, start_nodes) ==
    node_settings

\* node_settings after _collect_node_action_requests: the entries of the
\* synths that start here are popped
popped_node_settings(ns, node_actions, node_settings, start_nodes) ==
    SelectSeq(node_settings,
        LAMBDA e : ~(/\ e.node \in start_nodes
                     /\ ns[e.node].kind = "synth"
                     /\ \E i \in DOMAIN node_actions : node_actions[i].source = e.node))

\* _collect_node_action_requests
collect_node_action_requests_with_settings(ns, duration, id_mapping, node_actions, node_settings, start_nodes) ==
    [i \in DOMAIN node_actions |->
        LET source == node_actions[i].source
        IN IF source \in start_nodes
           THEN IF ns[source].kind = "synth"
                THEN SynthNewRequest(ns, source, node_actions[i], id_mapping,
                         synth_new_kwargs(ns, duration, source, node_settings))
                ELSE NodeNewRequest(ns, source, node_actions[i], id_mapping)
           ELSE NodeMoveRequest(node_actions[i], id_mapping)]

\* the keys of one node's settings that _collect_node_set_requests sends:
\* a key of scalar rate is skipped
sent_keys(ns, node, settings) ==
    LET parameters == IF ns[node].kind = "synth"
                      THEN parameter_names(ns[node].synthdef) ELSE {}
    IN {key \in DOMAIN settings :
           ~(key \in parameters /\ parameter_rate(ns[node].synthdef, key) = "scalar")}

\* fault variant of the requests of one node: the control-bus map is sent
\* ahead of the audio-bus map
node_set_requests_control_first(ns, bs, id_mapping, bus_mapping, node, settings) ==
    LET keys == sent_keys(ns, node, settings)
        c_keys == {key \in keys :
                      \/ settings[key] = None
                      \/ /\ settings[key][1] = "bus"
                         /\ bs[settings[key][2]].rate = "control"}
        a_keys == {key \in keys :
                      /\ settings[key][1] = "bus"
                      /\ bs[settings[key][2]].rate # "control"}
        n_keys == {key \in keys : settings[key][1] = "value"}
        bus_id(key) == IF settings[key] = None THEN 0 - 1
                       ELSE bus_mapping[<<"bus", settings[key][2]>>]
        raised == \E key \in a_keys \cup c_keys :
                      /\ settings[key] # None
                      /\ <<"bus", settings[key][2]>> \notin DOMAIN bus_mapping
    IN [raised |-> raised,
        requests |->
            IF raised THEN <<>>
            ELSE (IF n_keys = {} THEN <<>>
                  ELSE <<NodeSettingsRequest("n_set", id_mapping[node],
                             [key \in n_keys |-> settings[key][2]])>>)
                 \o (IF c_keys = {} THEN <<>>
                     ELSE <<NodeSettingsRequest("n_map", id_mapping[node],
                                [key \in c_keys |-> bus_id(key)])>>)
                 \o (IF a_keys = {} THEN <<>>
                     ELSE <<NodeSettingsRequest("n_mapa", id_mapping[node],
                                [key \in a_keys |-> bus_id(key)])>>)]

\* the body of the loop of _collect_node_set_requests for one node: the
\* three-way split of its settings and the requests that are not empty
node_set_requests(ns, bs, id_mapping, bus_mapping, node, settings) ==
    LET keys == sent_keys(ns, node, settings)
        c_keys == {key \in keys :
                      \/ settings[key] = None
                      \/ /\ settings[key][1] = "bus"
                         /\ bs[settings[key][2]].rate = "control"}
        a_keys == {key \in keys :
                      /\ settings[key][1] = "bus"
                      /\ bs[settings[key][2]].rate # "control"}
        n_keys == {key \in keys : settings[key][1] = "value"}
        bus_id(key) == IF settings[key] = None THEN 0 - 1
                       ELSE bus_mapping[<<"bus", settings[key][2]>>]
        raised == \E key \in a_keys \cup c_keys :
                      /\ settings[key] # None
                      /\ <<"bus", settings[key][2]>> \notin DOMAIN bus_mapping
    IN [raised |-> raised,
        requests |->
            IF raised THEN <<>>
            ELSE (IF n_keys = {} THEN <<>>
                  ELSE <<NodeSettingsRequest("n_set", id_mapping[node],
                             [key \in n_keys |-> settings[key][2]])>>)
                 \o (IF a_keys = {} THEN <<>>
                     ELSE <<NodeSettingsRequest("n_mapa", id_mapping[node],
                                [key \in a_keys |-> bus_id(key)])>>)
                 \o (IF c_keys = {} THEN <<>>
                     ELSE <<NodeSettingsRequest("n_map", id_mapping[node],
                                [key \in c_keys |-> bus_id(key)])>>)]

RECURSIVE collect_node_set_requests(_, _, _, _, _, _)
\* _collect_node_set_requests, from the k-th entry of node_settings on
collect_node_set_requests(ns, bs, id_mapping, bus_mapping, node_settings, k) ==
    IF k > Len(node_settings) THEN [raised |-> FALSE, requests |-> <<>>]
    ELSE LET first == node_set_requests(ns, bs, id_mapping, bus_mapping,
                          node_settings[k].node, node_settings[k].settings)
             rest == collect_node_set_requests(ns, bs, id_mapping, bus_mapping,
                                               node_settings, k + 1)
         IN [raised |-> first.raised \/ rest.raised,
             requests |-> first.requests \o rest.requests]

\* _collect_requests_at_offset, on the session that already holds a State
\* at offset; the session has no buffers
collect_requests_at_offset_with_settings(S, ns, bs, id_mapping, bus_mapping, bus_settings, duration, is_last_offset, offset, visited_synthdefs) ==
    Only({
        Only({
            [raised |-> node_sets.raised,
             requests |->
                 collect_synthdef_requests(ns, durated.start_nodes, visited_synthdefs)
                 \o collect_node_action_requests_with_settings(
                        ns, duration, id_mapping, S.states[offset].transitions,
                        node_settings, durated.start_nodes)
                 \o collect_bus_set_requests(bus_settings, offset)
                 \o node_sets.requests
                 \o collect_node_free_requests(ns, id_mapping, durated.stop_nodes)] :
            node_sets \in {collect_node_set_requests(
                              ns, bs, id_mapping, bus_mapping,
                              popped_node_settings(ns, S.states[offset].transitions,
                                                   node_settings, durated.start_nodes),
                              1)}}) :
        durated \in {collect_durated_objects(S, ns, offset, is_last_offset)},
        node_settings \in {collect_node_settings(S, ns, offset)}})

RECURSIVE compile_loop_with_settings(_, _, _, _, _, _, _, _, _, _, _)
\* the for loop over the render offsets, from the k-th on; an exception
\* leaves the loop with the session as it is by then
compile_loop_with_settings(S, ns, bs, offsets_of_render, k, duration, id_mapping, bus_mapping, bus_settings, visited_synthdefs, request_bundles) ==
    IF k > Len(offsets_of_render)
    THEN [ok |-> TRUE, session |-> S, bundles |-> request_bundles]
    ELSE LET offset == offsets_of_render[k]
             is_last_offset == offset = duration
             S1 == find_state_at(S, offset)
             visited == visited_synthdefs \cup
                            new_synthdefs(ns, S1.states[offset].start_nodes,
                                          visited_synthdefs)
         IN Only({
                LET requests == IF is_last_offset
                                THEN Append(collected.requests, NothingRequest)
                                ELSE collected.requests
                    bundles == IF requests # <<>>
                               THEN Append(request_bundles,
                                           [timestamp |-> offset, contents |-> requests])
                               ELSE request_bundles
                IN IF collected.raised
                   THEN [ok |-> FALSE, session |-> S1, bundles |-> <<>>]
                   ELSE IF is_last_offset
                   THEN [ok |-> TRUE, session |-> S1, bundles |-> bundles]
                   ELSE compile_loop_with_settings(
                            S1, ns, bs, offsets_of_render, k + 1, duration,
                            id_mapping, bus_mapping, bus_settings, visited,
                            bundles) :
                collected \in {collect_requests_at_offset_with_settings(
                                   S1, ns, bs, id_mapping, bus_mapping,
                                   bus_settings, duration, is_last_offset, offset,
                                   visited_synthdefs)}})

\* _to_non_xrefd_request_bundles of a session with buses and settings
to_non_xrefd_request_bundles_with_settings(S, ns, opts, bs, duration) ==
    LET id_mapping == build_id_mapping(S)
        failed == [ok |-> FALSE, session |-> S, bundles |-> <<>>,
                   idmap |-> id_mapping, duration |-> NoDuration]
    IN IF ~duration_assertion_holds(S, duration) THEN failed
       ELSE Only({
                IF bus_settings.raised THEN failed
                ELSE Only({
                         [ok |-> result.ok, session |-> result.session,
                          bundles |-> result.bundles, idmap |-> id_mapping,
                          duration |-> effective_duration(S, duration)] :
                         result \in {compile_loop_with_settings(
                                        S, ns, bs,
                                        render_offsets(S, effective_duration(S, duration)),
                                        1, effective_duration(S, duration),
                                        id_mapping, bus_mapping,
                                        bus_settings.settings, {}, <<>>)}}) :
                bus_mapping \in {build_id_mapping_for_buses(opts, bs)},
                bus_settings \in {collect_bus_settings(
                                     bs, build_id_mapping_for_buses(opts, bs))}})

(***************************************************************************)
(* A session with buses, synths created with keyword arguments, parameter  *)
(* writes on nodes and value writes on buses.                              *)
(***************************************************************************)
SettingKeys == {"duration", "frequency"}

\* the buses registered before the timeline is built: two control-rate
\* buses and an audio-rate one
PlainBuses ==
    LET bus(rate) == [rate |-> rate, group |-> 0, index |-> 0, events |-> <<>>]
    IN <<bus("control"), bus("control"), bus("audio")>>

\* a control-rate bus group of two
GroupedBuses ==
    LET bus(index) == [rate |-> "control", group |-> 1, index |-> index,
                       events |-> <<>>]
    IN <<bus(0), bus(1)>>

\* Session.__init__ followed by add_bus / add_bus_group
InitSettings ==
    /\ offsets = <<NegInf, 0>>
    /\ states = (NegInf :> [NewState(NegInf) EXCEPT !.ntc = (RootNode :> <<>>)])
                @@ (0 :> [NewState(0) EXCEPT !.ntc = (RootNode :> <<>>)])
    /\ active_moments = <<>>
    /\ nodes = <<>>
    /\ ret = Returned
    /\ synth = NoSynth
    /\ events = [item \in Items |-> <<>>]
    /\ log = <<>>
    /\ buffers = <<>>
    /\ buffer_events = <<>>
    /\ options = [input_count |-> 0, output_count |-> 1]
    /\ buses = PlainBuses
    /\ resolver = NoPass

\* the keyword arguments a synth of each SynthDef is created with
SynthKwargs(synthdef) ==
    IF synthdef \in GatedSynthDefs THEN ("frequency" :> Number(2)) ELSE <<>>

\* target.add_group(...) / target.add_synth(..., **synth_kwargs) inside a
\* moment
AddNodeWithKwargs(target, action, duration, kind, synthdef, synth_kwargs) ==
    /\ active_moments # <<>>
    /\ target \in DOMAIN states[ActiveOffset].ntc
    /\ action \in ValidAddActions(nodes, target)
    /\ LET n == Len(nodes) + 1
           start == ActiveOffset
           stop == IF duration = Inf THEN Inf ELSE start + duration
           S == add_node(Session, n, start, stop, target, action)
       IN /\ WellFormed(S)
          /\ offsets' = S.offsets
          /\ states' = S.states
          /\ nodes' = Append(nodes, [kind |-> kind, synthdef |-> synthdef,
                                     start |-> start, stop |-> stop,
                                     deleted |-> FALSE,
                                     synth_kwargs |-> synth_kwargs,
                                     events |-> <<>>])
          /\ ret' = Returned
    /\ UNCHANGED <<active_moments, synth_vars, buffers, buffer_events, bus_vars, resolver>>

NodeWrites ==
    Cardinality(UNION {{<<n, e>> : e \in DOMAIN nodes[n].events} : n \in DOMAIN nodes})

BusWrites ==
    Cardinality(UNION {{<<b, o>> : o \in DOMAIN buses[b].events} : b \in DOMAIN buses})

\* node[key] = value inside a moment
SetNode(node, key, value) ==
    /\ active_moments # <<>>
    /\ node \in DOMAIN nodes
    /\ value[1] = "bus" => value[2] \in DOMAIN buses
    /\ nodes' = [nodes EXCEPT ![node] = set_at_offset(@, ActiveOffset, key, value)]
    /\ ret' = Ret("set", TRUE, ActiveOffset)
    /\ UNCHANGED <<offsets, states, active_moments, synth_vars, buffers,
                   buffer_events, bus_vars, resolver>>

\* bus.set_(value) inside a moment
SetBus(bus, value) ==
    /\ active_moments # <<>>
    /\ bus \in DOMAIN buses
    /\ buses' = [buses EXCEPT ![bus].events = write_breakpoint(@, ActiveOffset, value)]
    /\ ret' = Ret("set_", TRUE, ActiveOffset)
    /\ UNCHANGED <<offsets, states, active_moments, nodes, synth_vars, buffers,
                   buffer_events, options, resolver>>

\* session._to_non_xrefd_request_bundles(duration) outside any moment
CompileWithSettings(duration) ==
    /\ active_moments = <<>>
    /\ ret.op # "compile"
    /\ \E result \in {to_non_xrefd_request_bundles_with_settings(
                         Session, nodes, options, buses, duration)} :
          /\ offsets' = result.session.offsets
          /\ states' = result.session.states
          /\ ret' = [op |-> "compile", ok |-> result.ok, arg |-> duration,
                     prev |-> NoCompile, duration |-> result.duration,
                     bundles |-> result.bundles, idmap |-> result.idmap,
                     nth |-> ret.nth + 1, item |-> ""]
    /\ UNCHANGED <<active_moments, nodes, synth_vars, buffers, buffer_events, bus_vars, resolver>>

\* the values written to buses, and to the parameters of nodes
BusValues == {1, 2}

SettingValues == {Number(1), None, BusValue(1), BusValue(3)}

NextSettings ==
    \/ \E offset \in 0..MaxSettingOffset : active_moments = <<>> /\ At(offset)
    \/ ExitMoment
    \/ \E target \in 0..MaxSettingNodes :
          Len(nodes) < MaxSettingNodes
              /\ AddNodeWithKwargs(target, "ADD_TO_HEAD", Inf, "group", 0, <<>>)
    \/ \E target \in 0..MaxSettingNodes, duration \in {0, 1, Inf},
          synthdef \in SynthDefs :
          Len(nodes) < MaxSettingNodes
              /\ AddNodeWithKwargs(target, "ADD_TO_HEAD", duration, "synth",
                                   synthdef, SynthKwargs(synthdef))
    \/ \E node \in 1..MaxSettingNodes, key \in SettingKeys, value \in SettingValues :
          NodeWrites < MaxNodeWrites /\ SetNode(node, key, value)
    \/ \E duration \in {NoDuration, 1} : CompileWithSettings(duration)

SettingsSpec == InitSettings /\ [][NextSettings]_vars

(***************************************************************************)
(* A session whose buses are written to: the buses are plain ones or a     *)
(* group, a group may be placed in the tree, and the session is compiled.  *)
(***************************************************************************)
InitBusSet ==
    /\ offsets = <<NegInf, 0>>
    /\ states = (NegInf :> [NewState(NegInf) EXCEPT !.ntc = (RootNode :> <<>>)])
                @@ (0 :> [NewState(0) EXCEPT !.ntc = (RootNode :> <<>>)])
    /\ active_moments = <<>>
    /\ nodes = <<>>
    /\ ret = Returned
    /\ synth = NoSynth
    /\ events = [item \in Items |-> <<>>]
    /\ log = <<>>
    /\ buffers = <<>>
    /\ buffer_events = <<>>
    /\ options = [input_count |-> 0, output_count |-> 1]
    /\ buses \in {PlainBuses, GroupedBuses}
    /\ resolver = NoPass

NextBusSet ==
    \/ \E offset \in 0..MaxOffset : active_moments = <<>> /\ At(offset)
    \/ ExitMoment
    \/ \E duration \in {1, Inf} :
          Len(nodes) < 1
              /\ AddNodeWithKwargs(RootNode, "ADD_TO_HEAD", duration, "group", 0, <<>>)
    \/ \E bus \in 1..MaxSettingBuses, value \in BusValues :
          BusWrites < MaxBusWrites /\ SetBus(bus, value)
    \/ \E duration \in {NoDuration} \cup (1..MaxOffset) :
          CompileWithSettings(duration)

BusSetSpec == InitBusSet /\ [][NextBusSet]_vars


(***************************************************************************)
(* C33.  Each bundle of a compile contains at most one control-bus set     *)
(* request; the request is there exactly when a control-rate bus was       *)
(* written at the bundle's offset, and it carries one (bus id, value) pair *)
(* for every such bus, in ascending order of bus id; a write on an         *)
(* audio-rate bus adds nothing to it.                                      *)
(***************************************************************************)
BusIdOf(b) == build_id_mapping_for_buses(options, buses)[<<"bus", b>>]

\* the control-rate buses written at offset t
ControlWrites(t) ==
    {b \in DOMAIN buses : buses[b].rate = "control" /\ t \in DOMAIN buses[b].events}

AudioWrites(t) ==
    {b \in DOMAIN buses : buses[b].rate = "audio" /\ t \in DOMAIN buses[b].events}

C33_OneControlBusSetPerBundle ==
    (ret.op = "compile" /\ ret.ok) =>
        /\ \A i \in DOMAIN ret.bundles :
              LET bundle == ret.bundles[i]
                  sets == OfType(bundle, "c_set")
                  written == ControlWrites(bundle.timestamp)
              IN /\ Len(sets) <= 1
                 /\ (Len(sets) = 1) <=> (written # {})
                 /\ Len(sets) = 1 =>
                       LET pairs == sets[1].index_value_pairs
                       IN /\ SeqToSet(pairs) =
                                {<<BusIdOf(b), buses[b].events[bundle.timestamp]>> :
                                    b \in written}
                          /\ \A j \in 1..(Len(pairs) - 1) : pairs[j][1] < pairs[j + 1][1]
        /\ \A t \in 0..ret.duration :
              ControlWrites(t) # {} =>
                  \E i \in DOMAIN ret.bundles : ret.bundles[i].timestamp = t

C33_Witness ==
    /\ ret.op = "compile" /\ ret.ok
    /\ \E i \in DOMAIN ret.bundles :
          /\ AudioWrites(ret.bundles[i].timestamp) # {}
          /\ Len(OfType(ret.bundles[i], "c_set")) = 1
          /\ Len(OfType(ret.bundles[i], "c_set")[1].index_value_pairs) = 2


(***************************************************************************)
(* C31.  The synth-new request of a synth whose definition declares a      *)
(* duration parameter carries duration = min(stop offset, render           *)
(* duration) - start offset; for a definition that declares none the       *)
(* compiler adds no duration argument: the request has one only when the   *)
(* user wrote one at the synth's start, and then it is that value.         *)
(***************************************************************************)
\* the node a request's id stands for
NodeOfId(id) == CHOOSE n \in DOMAIN nodes : SessionId(n) = id

DeclaresDuration(n) == "duration" \in parameter_names(nodes[n].synthdef)

MinOfTwo(a, b) == IF a < b THEN a ELSE b

C31_DurationInjectedWhenDeclared ==
    (ret.op = "compile" /\ ret.ok) =>
        \A i \in DOMAIN ret.bundles :
            LET news == OfType(ret.bundles[i], "s_new")
            IN \A j \in DOMAIN news :
                  LET n == NodeOfId(news[j].id)
                      kwargs == news[j].kwargs
                  IN IF DeclaresDuration(n)
                     THEN /\ "duration" \in DOMAIN kwargs
                          /\ kwargs["duration"] =
                                Number(MinOfTwo(nodes[n].stop, ret.duration)
                                           - nodes[n].start)
                     ELSE "duration" \in DOMAIN kwargs =>
                            /\ <<"duration", 0>> \in DOMAIN nodes[n].events
                            /\ kwargs["duration"] = nodes[n].events[<<"duration", 0>>]

\* a compile cuts short a synth that starts after 0 and never stops, and
\* creates a synth whose definition declares no duration
C31_Witness ==
    /\ ret.op = "compile" /\ ret.ok
    /\ \E i \in DOMAIN ret.bundles :
          \E j \in DOMAIN OfType(ret.bundles[i], "s_new") :
              LET r == OfType(ret.bundles[i], "s_new")[j]
              IN /\ DeclaresDuration(NodeOfId(r.id))
                 /\ nodes[NodeOfId(r.id)].start > 0
                 /\ nodes[NodeOfId(r.id)].stop = Inf
                 /\ r.kwargs["duration"] = Number(1)
    /\ \E i \in DOMAIN ret.bundles :
          \E j \in DOMAIN OfType(ret.bundles[i], "s_new") :
              LET r == OfType(ret.bundles[i], "s_new")[j]
              IN /\ ~DeclaresDuration(NodeOfId(r.id))
                 /\ "duration" \notin DOMAIN r.kwargs


(***************************************************************************)
(* C37.  For a synth that starts at offset T, every parameter value        *)
(* recorded for it at T is an argument of its synth-new request, and the   *)
(* bundle at T holds no node-set or bus-map request for that synth.        *)
(* (The duration argument of a definition that declares one is the         *)
(* compiler's, see C31.)                                                   *)
(***************************************************************************)
SettingTypes == {"n_set", "n_mapa", "n_map"}

\* the synths that a compile to ret.duration creates
SynthsCompiled ==
    {n \in DOMAIN nodes : nodes[n].kind = "synth" /\ nodes[n].start <= ret.duration}

\* the keys written for node n at its start
KeysAtStart(n) == {e[1] : e \in {d \in DOMAIN nodes[n].events : d[2] = 0}}

\* the requests of the bundle at offset t, none when there is no bundle
ContentsAt(t) ==
    LET at == {i \in DOMAIN ret.bundles : ret.bundles[i].timestamp = t}
    IN IF at = {} THEN <<>> ELSE ret.bundles[CHOOSE i \in at : TRUE].contents

SynthNewOf(n) ==
    SelectSeq(ContentsAt(nodes[n].start),
              LAMBDA r : r.type = "s_new" /\ r.id = SessionId(n))

NoSeparateSetting(n) ==
    \A j \in DOMAIN ContentsAt(nodes[n].start) :
        LET r == ContentsAt(nodes[n].start)[j]
        IN ~(r.type \in SettingTypes /\ r.id = SessionId(n))

FoldedIntoSynthNew(n) ==
    /\ Len(SynthNewOf(n)) = 1
    /\ \A key \in KeysAtStart(n) :
          (key = "duration" /\ DeclaresDuration(n))
          \/ /\ key \in DOMAIN SynthNewOf(n)[1].kwargs
             /\ SynthNewOf(n)[1].kwargs[key] = nodes[n].events[<<key, 0>>]

C37_SettingsAtStartAreFolded ==
    (ret.op = "compile" /\ ret.ok) =>
        \A n \in SynthsCompiled : FoldedIntoSynthNew(n) /\ NoSeparateSetting(n)

\* the same for the synths that do not stop at the offset they start at
C37_SettingsAtStartAreFoldedUnlessZeroDuration ==
    (ret.op = "compile" /\ ret.ok) =>
        /\ \A n \in SynthsCompiled :
              nodes[n].start < nodes[n].stop => FoldedIntoSynthNew(n)
        /\ \A n \in SynthsCompiled : NoSeparateSetting(n)


(***************************************************************************)
(* C32.  In every bundle the parameter requests of a node are at most      *)
(* three, in the order node-set, map-to-audio-bus, map-to-control-bus,     *)
(* each present exactly when it has a setting to carry; a parameter of     *)
(* scalar rate is in none of them; None is a control-bus map to -1; the    *)
(* requests of different nodes follow the depth-first order of the tree    *)
(* resolved for the offset.  (The settings of a synth that starts at the   *)
(* offset travel in its synth-new request, see C37.)                       *)
(***************************************************************************)
ResolvedTree(t) ==
    IF HasNodeTree(states[t]) THEN states[t].ntc
    ELSE states[find_state_before(offsets, states, t, TRUE)].ntc

RECURSIVE PathTo(_, _)
\* the child indices on the way from the root down to n
PathTo(ntc, n) ==
    IF n = RootNode THEN <<>>
    ELSE Append(PathTo(ntc, Parent(ntc, n)), ChildIndex(ntc, n))

\* p comes first in depth-first order: it is a proper prefix of q, or is
\* the smaller at the first index where they differ
PathBefore(p, q) ==
    \E k \in 1..(Len(q)) :
        /\ \A m \in 1..(k - 1) : m <= Len(p) /\ p[m] = q[m]
        /\ k > Len(p) \/ p[k] < q[k]

TypeRank(type) ==
    CASE type = "n_set" -> 1 [] type = "n_mapa" -> 2 [] type = "n_map" -> 3

SettingRequests(t) ==
    SelectSeq(ContentsAt(t), LAMBDA r : r.type \in SettingTypes)

\* the request type a written value belongs in, and what it is sent as
TypeOfValue(value) ==
    CASE value[1] = "value" -> "n_set"
      [] value = None -> "n_map"
      [] value[1] = "bus" /\ buses[value[2]].rate = "control" -> "n_map"
      [] value[1] = "bus" /\ buses[value[2]].rate = "audio" -> "n_mapa"

SentAs(value) ==
    CASE value[1] = "value" -> value[2]
      [] value = None -> 0 - 1
      [] value[1] = "bus" -> BusIdOf(value[2])

FixedAtCreation(n, key) ==
    /\ nodes[n].kind = "synth"
    /\ key \in parameter_names(nodes[n].synthdef)
    /\ parameter_rate(nodes[n].synthdef, key) = "scalar"

\* what the request of the given type has to carry for node n at offset t
ExpectedSettings(n, t, type) ==
    LET timestep == t - nodes[n].start
        keys == {key \in SettingKeys :
                    /\ <<key, timestep>> \in DOMAIN nodes[n].events
                    /\ ~FixedAtCreation(n, key)
                    /\ TypeOfValue(nodes[n].events[<<key, timestep>>]) = type}
    IN [key \in keys |-> SentAs(nodes[n].events[<<key, timestep>>])]

\* n is in the tree at t and is not a synth created there
SetSeparately(n, t) ==
    /\ n \in DOMAIN ResolvedTree(t)
    /\ ~(nodes[n].kind = "synth" /\ nodes[n].start = t)

C32_NodeSettingsSplitThreeWays ==
    (ret.op = "compile" /\ ret.ok) =>
        \A i \in DOMAIN ret.bundles :
            LET t == ret.bundles[i].timestamp
                rs == SettingRequests(t)
                node(j) == NodeOfId(rs[j].id)
            IN /\ \A j \in DOMAIN rs :
                     /\ rs[j].settings # <<>>
                     /\ SetSeparately(node(j), t)
                     /\ rs[j].settings = ExpectedSettings(node(j), t, rs[j].type)
               /\ \A n \in DOMAIN nodes, type \in SettingTypes :
                     (SetSeparately(n, t) /\ ExpectedSettings(n, t, type) # <<>>) =>
                         \E j \in DOMAIN rs :
                             rs[j].id = SessionId(n) /\ rs[j].type = type
               /\ \A j, k \in DOMAIN rs :
                     j < k =>
                         IF rs[j].id = rs[k].id
                         THEN TypeRank(rs[j].type) < TypeRank(rs[k].type)
                         ELSE PathBefore(PathTo(ResolvedTree(t), node(j)),
                                         PathTo(ResolvedTree(t), node(k)))

\* a bundle holds a node-set and, after it, a control-bus map to -1 of one
\* node, which was written a number and None in one moment
C32_Witness ==
    /\ ret.op = "compile" /\ ret.ok
    /\ \E i \in DOMAIN ret.bundles :
          LET rs == SettingRequests(ret.bundles[i].timestamp)
          IN /\ Len(rs) = 2
             /\ rs[1].id = rs[2].id
             /\ rs[1].type = "n_set"
             /\ rs[2].type = "n_map"
             /\ \E key \in DOMAIN rs[2].settings : rs[2].settings[key] = 0 - 1
====
